---- MODULE Spec2Model ----
(***************************************************************************)
(* A model of the kick/cutr scaffolding engine: the template renderer      *)
(* (internal/renderer), the hook executor (internal/hooks) and the         *)
(* generation workflow (internal/generator).                                *)
(*                                                                         *)
(* File names, file contents and hook commands are byte strings.  A byte   *)
(* is an integer 0..255.  A template text is kept in its tokenised form, a *)
(* sequence of items: literal runs of bytes and the {{...}} actions of     *)
(* text/template.  Bytes(items) is the raw text the file system and the    *)
(* byte-level code (isBinary, filepath.Match, sorting) see.                *)
(***************************************************************************)
EXTENDS Integers, Sequences, FiniteSets, TLC

\* ------------------------------------------------------------------ bytes

\* The byte value of each character the model's texts are written with.
Ord ==
    ("a" :> 97) @@ ("b" :> 98) @@ ("c" :> 99) @@ ("d" :> 100) @@ ("e" :> 101) @@
    ("f" :> 102) @@ ("g" :> 103) @@ ("h" :> 104) @@ ("i" :> 105) @@ ("l" :> 108) @@
    ("m" :> 109) @@ ("n" :> 110) @@ ("p" :> 112) @@ ("r" :> 114) @@ ("s" :> 115) @@
    ("t" :> 116) @@ ("u" :> 117) @@ ("v" :> 118) @@ ("x" :> 120) @@ ("y" :> 121) @@
    ("o" :> 111) @@ ("w" :> 119) @@ ("A" :> 65) @@
    ("." :> 46) @@ ("*" :> 42) @@ ("?" :> 63) @@ ("/" :> 47) @@ (" " :> 32) @@ ("LF" :> 10) @@
    ("{" :> 123) @@ ("}" :> 125) @@ ("=" :> 61) @@ ("[" :> 91) @@ ("]" :> 93) @@ ("<" :> 60) @@
    ("NUL" :> 0) @@ ("SOH" :> 1) @@ ("HI" :> 255) @@ ("C3" :> 195) @@ ("A9" :> 169)

\* The bytes of a text written as a tuple of character names.
Text(s) == [i \in 1..Len(s) |-> Ord[s[i]]]

\* n copies of the byte string s.
Repeat(s, n) ==
    IF n = 1 THEN s ELSE [i \in 1..(Len(s) * n) |-> s[((i - 1) % Len(s)) + 1]]

\* Bytewise string order, the order os.ReadDir sorts file names in.
LessBytes(a, b) ==
    \E i \in 1..(Len(a) + 1) :
        /\ \A j \in 1..(i - 1) : j <= Len(b) /\ a[j] = b[j]
        /\ i <= Len(b)
        /\ (i > Len(a) \/ a[i] < b[i])

\* strings.TrimSpace on an ASCII byte string.
IsSpace(b) == b \in {9, 10, 11, 12, 13, 32}

TrimSpace(s) ==
    LET keep == {i \in 1..Len(s) : ~IsSpace(s[i])} IN
    IF keep = {} THEN <<>>
    ELSE LET lo == CHOOSE i \in keep : \A j \in keep : i <= j
             hi == CHOOSE i \in keep : \A j \in keep : j <= i
         IN SubSeq(s, lo, hi)

\* ------------------------------------------------------- template texts

\* A literal run: the byte string s, n times over.
Lit(s) == [t |-> "lit", s |-> Text(s), k |-> "", n |-> 1]
Run(s, n) == [t |-> "lit", s |-> Text(s), k |-> "", n |-> n]
\* {{.k}}
Var(k) == [t |-> "var", s |-> <<>>, k |-> k, n |-> 1]
\* {{if .k}}
If(k) == [t |-> "if", s |-> <<>>, k |-> k, n |-> 1]
\* {{end}}
End == [t |-> "end", s |-> <<>>, k |-> "", n |-> 1]
\* {{fn .k}}, fn the name of a function
Call(fn, k) == [t |-> "call", s |-> Text(fn), k |-> k, n |-> 1]
\* {{.k with the closing braces missing
Unclosed(k) == [t |-> "bad", s |-> <<>>, k |-> k, n |-> 1]

ItemBytes(it) ==
    CASE it.t = "lit" -> Repeat(it.s, it.n)
      [] it.t = "var" -> Text(<<"{", "{", ".">>) \o <<Ord[it.k]>> \o Text(<<"}", "}">>)
      [] it.t = "if"  -> Text(<<"{", "{", "i", "f", " ", ".">>) \o <<Ord[it.k]>> \o Text(<<"}", "}">>)
      [] it.t = "end" -> Text(<<"{", "{", "e", "n", "d", "}", "}">>)
      [] it.t = "call" -> Text(<<"{", "{">>) \o it.s \o Text(<<" ", ".">>) \o <<Ord[it.k]>>
                             \o Text(<<"}", "}">>)
      [] it.t = "bad" -> Text(<<"{", "{", ".">>) \o <<Ord[it.k]>>

RECURSIVE Bytes(_)
Bytes(items) ==
    IF items = <<>> THEN <<>> ELSE ItemBytes(Head(items)) \o Bytes(Tail(items))

\* Whether the text holds any placeholder syntax at all.
HasPlaceholder(items) == \E i \in 1..Len(items) : items[i].t # "lit"

\* template.Parse: an unterminated action, an {{end}} with no open {{if}} and
\* an {{if}} left open are parse errors.
RECURSIVE Balanced(_, _)
Balanced(items, depth) ==
    IF items = <<>> THEN depth = 0
    ELSE CASE Head(items).t = "if"  -> Balanced(Tail(items), depth + 1)
           [] Head(items).t = "end" -> depth > 0 /\ Balanced(Tail(items), depth - 1)
           [] OTHER                 -> Balanced(Tail(items), depth)

ParseOK(items) ==
    /\ \A i \in 1..Len(items) : items[i].t # "bad"
    /\ Balanced(items, 0)

\* Parse on a template that was given the functions funcs: a call of a
\* function that is not among them is a parse error ("function not defined").
ParseWith(items, funcs) ==
    /\ ParseOK(items)
    /\ \A i \in 1..Len(items) : items[i].t = "call" => items[i].s \in funcs

\* No function was given to the template.
NoFuncs == {}

\* newTemplateFuncs: the names of the function map (of its nine functions
\* upper, lower and trim are modelled).
newTemplateFuncs ==
    {Text(<<"u", "p", "p", "e", "r">>), Text(<<"l", "o", "w", "e", "r">>),
     Text(<<"t", "r", "i", "m">>)}

\* What the functions return on a text of ASCII letters.
ApplyFunc(fn, text) ==
    CASE fn = Text(<<"u", "p", "p", "e", "r">>) ->
           [i \in 1..Len(text) |->
               IF text[i] >= 97 /\ text[i] <= 122 THEN text[i] - 32 ELSE text[i]]
      [] fn = Text(<<"l", "o", "w", "e", "r">>) ->
           [i \in 1..Len(text) |->
               IF text[i] >= 65 /\ text[i] <= 90 THEN text[i] + 32 ELSE text[i]]
      [] OTHER -> TrimSpace(text)

\* ---------------------------------------------------------------- values

StrVal(s) == [kind |-> "str", s |-> Text(s), v |-> FALSE]
BoolVal(b) == [kind |-> "bool", s |-> <<>>, v |-> b]

\* How text/template prints a value.
ValueText(val) ==
    IF val.kind = "str" THEN val.s
    ELSE IF val.v THEN Text(<<"t", "r", "u", "e">>) ELSE Text(<<"f", "a", "l", "s", "e">>)

\* text/template truth: the empty string and false are false.
Truthy(val) == IF val.kind = "str" THEN Len(val.s) > 0 ELSE val.v

\* template.Execute with Option("missingkey=error") on a map: a field of the
\* map that is evaluated and has no entry is an error; what lies in a branch
\* that is not taken is not evaluated.  skip counts the enclosing {{if}}
\* blocks that are being skipped.
RECURSIVE Exec(_, _, _)
Exec(items, skip, data) ==
    IF items = <<>> THEN [err |-> FALSE, out |-> <<>>]
    ELSE
      LET it == Head(items)
          rest == Tail(items)
      IN
      IF skip > 0 THEN
        CASE it.t = "if"  -> Exec(rest, skip + 1, data)
          [] it.t = "end" -> Exec(rest, skip - 1, data)
          [] OTHER        -> Exec(rest, skip, data)
      ELSE
        CASE it.t = "lit" ->
               LET r == Exec(rest, 0, data) IN
               [err |-> r.err, out |-> IF r.err THEN <<>> ELSE Repeat(it.s, it.n) \o r.out]
          [] it.t = "var" ->
               IF it.k \notin DOMAIN data THEN [err |-> TRUE, out |-> <<>>]
               ELSE LET r == Exec(rest, 0, data) IN
                    [err |-> r.err,
                     out |-> IF r.err THEN <<>> ELSE ValueText(data[it.k]) \o r.out]
          [] it.t = "call" ->
               IF it.k \notin DOMAIN data \/ data[it.k].kind # "str"
                 THEN [err |-> TRUE, out |-> <<>>]
               ELSE LET r == Exec(rest, 0, data) IN
                    [err |-> r.err,
                     out |-> IF r.err THEN <<>>
                             ELSE ApplyFunc(it.s, data[it.k].s) \o r.out]
          [] it.t = "if" ->
               IF it.k \notin DOMAIN data THEN [err |-> TRUE, out |-> <<>>]
               ELSE IF Truthy(data[it.k]) THEN Exec(rest, 0, data)
               ELSE Exec(rest, 1, data)
          [] OTHER -> Exec(rest, 0, data)

\* Renderer.renderString: parse, then execute; the error names the step.
renderString(tmpl, data) ==
    IF ~ParseWith(tmpl, newTemplateFuncs) THEN [err |-> "parse template", out |-> <<>>]
    ELSE LET r == Exec(tmpl, 0, data) IN
         IF r.err THEN [err |-> "execute template", out |-> <<>>]
         ELSE [err |-> "none", out |-> r.out]

\* renderBytes that trims the rendered text, as renderPath does a segment.
renderBytes_Trimmed(b, data) ==
    IF ~ParseWith(b, newTemplateFuncs) THEN [err |-> "parse template", out |-> <<>>]
    ELSE LET r == Exec(b, 0, data) IN
         IF r.err THEN [err |-> "execute template", out |-> <<>>]
         ELSE [err |-> "none", out |-> TrimSpace(r.out)]

\* renderBytes without Option("missingkey=error"): an absent key is no error.
renderBytes_Lenient(b, data) ==
    IF ~ParseWith(b, newTemplateFuncs) THEN [err |-> "parse template", out |-> <<>>]
    ELSE [err |-> "none", out |-> Exec(b, 0, data).out]

\* Renderer.renderBytes: the same on a file's content.
renderBytes(b, data) ==
    IF ~ParseWith(b, newTemplateFuncs) THEN [err |-> "parse template", out |-> <<>>]
    ELSE LET r == Exec(b, 0, data) IN
         IF r.err THEN [err |-> "execute template", out |-> <<>>]
         ELSE [err |-> "none", out |-> r.out]

\* ------------------------------------------------------------- isBinary

maxSampleSize == 1024
\* nonPrintableRatio = 0.3, kept as the fraction 3/10.
nonPrintableRatioNum == 3
nonPrintableRatioDen == 10

\* isPrintableOrWhitespace
isPrintableOrWhitespace(b) == (b >= 32 /\ b <= 126) \/ b = 9 \/ b = 10 \/ b = 13

\* utf8.Valid.  A byte 0x80..0xBF continues a character; every other byte
\* must start one of the length its value announces, be followed by exactly
\* that many continuation bytes (the second one in the narrower range the
\* standard gives for E0, ED, F0 and F4), and the text must start with one.
IsCont(b) == b >= 128 /\ b <= 191

LeadLen(b) ==
    IF b < 128 THEN 1
    ELSE IF b >= 194 /\ b <= 223 THEN 2
    ELSE IF b >= 224 /\ b <= 239 THEN 3
    ELSE IF b >= 240 /\ b <= 244 THEN 4
    ELSE 0

SecondOK(lead, b) ==
    CASE lead = 224 -> b >= 160 /\ b <= 191
      [] lead = 237 -> b >= 128 /\ b <= 159
      [] lead = 240 -> b >= 144 /\ b <= 191
      [] lead = 244 -> b >= 128 /\ b <= 143
      [] OTHER      -> IsCont(b)

utf8Valid(s) ==
    /\ Len(s) > 0 => ~IsCont(s[1])
    /\ \A i \in 1..Len(s) :
         ~IsCont(s[i]) =>
            LET n == LeadLen(s[i]) IN
            /\ n > 0
            /\ i + n - 1 <= Len(s)
            /\ \A j \in (i + 1)..(i + n - 1) : IsCont(s[j])
            /\ n > 1 => SecondOK(s[i], s[i + 1])
            /\ i + n <= Len(s) => ~IsCont(s[i + n])

\* isBinary that looks at a sample one byte short.
isBinary_ShortSample(data) ==
    LET sampleSize == IF Len(data) < maxSampleSize - 1 THEN Len(data) ELSE maxSampleSize - 1
        sample == SubSeq(data, 1, sampleSize)
        nonPrintable == Cardinality({i \in 1..sampleSize : ~isPrintableOrWhitespace(sample[i])})
    IN
    IF \E i \in 1..sampleSize : sample[i] = 0 THEN TRUE
    ELSE IF utf8Valid(sample) THEN FALSE
    ELSE nonPrintable * nonPrintableRatioDen > nonPrintableRatioNum * Len(sample)

\* isBinary for which 30% of non-printable bytes is already binary.
isBinary_AtLeast(data) ==
    LET sampleSize == IF Len(data) < maxSampleSize THEN Len(data) ELSE maxSampleSize
        sample == SubSeq(data, 1, sampleSize)
        nonPrintable == Cardinality({i \in 1..sampleSize : ~isPrintableOrWhitespace(sample[i])})
    IN
    IF \E i \in 1..sampleSize : sample[i] = 0 THEN TRUE
    ELSE IF utf8Valid(sample) THEN FALSE
    ELSE nonPrintable * nonPrintableRatioDen >= nonPrintableRatioNum * Len(sample)

\* isBinary: on the first maxSampleSize bytes, a null byte means binary,
\* valid UTF-8 means text, and otherwise more than 30% of non-printable
\* bytes means binary.
isBinary(data) ==
    LET sampleSize == IF Len(data) < maxSampleSize THEN Len(data) ELSE maxSampleSize
        sample == SubSeq(data, 1, sampleSize)
        nonPrintable == Cardinality({i \in 1..sampleSize : ~isPrintableOrWhitespace(sample[i])})
    IN
    IF \E i \in 1..sampleSize : sample[i] = 0 THEN TRUE
    ELSE IF utf8Valid(sample) THEN FALSE
    ELSE nonPrintable * nonPrintableRatioDen > nonPrintableRatioNum * Len(sample)

\* ------------------------------------------------------- filepath.Match

\* The index of the "]" that closes the class opened at p[i], or 0.
ClassEnd(p, i) ==
    LET ends == {j \in (i + 2)..Len(p) : p[j] = 93} IN
    IF ends = {} THEN 0 ELSE CHOOSE j \in ends : \A k \in ends : j <= k

\* filepath.Match(pattern, name) for patterns made of literals, "?", "*"
\* and plain character classes "[abc]": "*" and "?" never match a separator.
\* A class that is never closed is ErrBadPattern, which the caller drops:
\* no match.
RECURSIVE MatchFrom(_, _, _, _)
MatchFrom(p, i, s, j) ==
    IF i > Len(p) THEN j > Len(s)
    ELSE
      CASE p[i] = 42 ->
             \/ MatchFrom(p, i + 1, s, j)
             \/ (j <= Len(s) /\ s[j] # 47 /\ MatchFrom(p, i, s, j + 1))
        [] p[i] = 63 ->
             j <= Len(s) /\ s[j] # 47 /\ MatchFrom(p, i + 1, s, j + 1)
        [] p[i] = 91 ->
             LET e == ClassEnd(p, i) IN
             /\ e # 0
             /\ j <= Len(s)
             /\ \E m \in (i + 1)..(e - 1) : p[m] = s[j]
             /\ MatchFrom(p, e + 1, s, j + 1)
        [] OTHER ->
             j <= Len(s) /\ s[j] = p[i] /\ MatchFrom(p, i + 1, s, j + 1)

Match(pattern, name) == MatchFrom(pattern, 1, name, 1)

\* ---------------------------------------------------------- source tree

\* A source path is the sequence of its segments, each a template text.
\* The raw relative path, as filepath.Rel gives it.
RECURSIVE RelBytes(_)
RelBytes(rel) ==
    IF Len(rel) = 0 THEN <<>>
    ELSE IF Len(rel) = 1 THEN Bytes(rel[1])
    ELSE Bytes(rel[1]) \o <<47>> \o RelBytes(Tail(rel))

\* filepath.Base of a source path.
BaseBytes(rel) == Bytes(rel[Len(rel)])

IsPrefix(p, q) == Len(p) <= Len(q) /\ SubSeq(q, 1, Len(p)) = p

\* config.CutrYAML
CutrYAML == Text(<<"c", "u", "t", "r", ".", "y", "a", "m", "l">>)
DotGit == Text(<<".", "g", "i", "t">>)

\* shouldSkip that knows the version-control directory only.
shouldSkip_GitOnly(basename, isDir) == basename = DotGit

\* Renderer.shouldSkip
shouldSkip(basename, isDir) == basename = DotGit \/ basename = CutrYAML

\* shouldIgnoreWithSettings that tries the patterns on the base name only.
shouldIgnoreWithSettings_BaseOnly(rel, isDir, settings) ==
    \E i \in 1..Len(settings.IgnorePatterns) :
       Match(settings.IgnorePatterns[i], BaseBytes(rel))

\* Renderer.shouldIgnoreWithSettings
shouldIgnoreWithSettings(rel, isDir, settings) ==
    LET basename == BaseBytes(rel)
        relPath == RelBytes(rel)
    IN \E i \in 1..Len(settings.IgnorePatterns) :
         LET pattern == settings.IgnorePatterns[i] IN
         \/ Match(pattern, basename)
         \/ Match(pattern, relPath)
         \/ (isDir /\ pattern = basename)

\* ------------------------------------------------- filepath.Join / Clean

\* strings.Split(s, "/")
RECURSIVE SplitSlash(_, _)
SplitSlash(s, cur) ==
    IF s = <<>> THEN <<cur>>
    ELSE IF Head(s) = 47 THEN <<cur>> \o SplitSlash(Tail(s), <<>>)
    ELSE SplitSlash(Tail(s), Append(cur, Head(s)))

DotDot == Text(<<".", ".">>)
Dot == Text(<<".">>)

\* filepath.Clean on the components of a path: empty and "." components go,
\* ".." removes the component before it, is dropped at the root of a rooted
\* path and is kept at the front of a relative one.
RECURSIVE CleanComps(_, _, _)
CleanComps(raw, rooted, out) ==
    IF raw = <<>> THEN out
    ELSE
      LET c == Head(raw) IN
      IF c = <<>> \/ c = Dot THEN CleanComps(Tail(raw), rooted, out)
      ELSE IF c = DotDot THEN
        IF out # <<>> /\ out[Len(out)] # DotDot
          THEN CleanComps(Tail(raw), rooted, SubSeq(out, 1, Len(out) - 1))
        ELSE IF rooted THEN CleanComps(Tail(raw), rooted, out)
        ELSE CleanComps(Tail(raw), rooted, Append(out, c))
      ELSE CleanComps(Tail(raw), rooted, Append(out, c))

RECURSIVE JoinSlash(_)
JoinSlash(segs) ==
    IF Len(segs) = 1 THEN segs[1] ELSE segs[1] \o <<47>> \o JoinSlash(Tail(segs))

\* filepath.Join(outSegs...) followed by filepath.Join(outRoot, targetRel):
\* empty says targetRel == ""; comps is the target path below outRoot, a
\* leading ".." component standing for the directory above outRoot.
JoinTarget(outSegs) ==
    IF outSegs = <<>> THEN [err |-> "none", empty |-> TRUE, comps |-> <<>>]
    ELSE [err |-> "none", empty |-> FALSE,
          comps |-> CleanComps(SplitSlash(JoinSlash(outSegs), <<>>),
                               outSegs[1][1] = 47, <<>>)]

\* strings.TrimSpace on a segment of the source path, in its tokenised form.
RECURSIVE TrimLeftItems(_)
TrimLeftItems(items) ==
    IF items = <<>> \/ Head(items).t # "lit" THEN items
    ELSE LET raw == ItemBytes(Head(items))
             keep == {i \in 1..Len(raw) : ~IsSpace(raw[i])}
         IN IF keep = {} THEN TrimLeftItems(Tail(items))
            ELSE LET lo == CHOOSE i \in keep : \A j \in keep : i <= j IN
                 <<[t |-> "lit", s |-> SubSeq(raw, lo, Len(raw)), k |-> "", n |-> 1]>>
                    \o Tail(items)

RECURSIVE TrimRightItems(_)
TrimRightItems(items) ==
    IF items = <<>> \/ items[Len(items)].t # "lit" THEN items
    ELSE LET raw == ItemBytes(items[Len(items)])
             front == SubSeq(items, 1, Len(items) - 1)
             keep == {i \in 1..Len(raw) : ~IsSpace(raw[i])}
         IN IF keep = {} THEN TrimRightItems(front)
            ELSE LET hi == CHOOSE i \in keep : \A j \in keep : j <= i IN
                 Append(front, [t |-> "lit", s |-> SubSeq(raw, 1, hi), k |-> "", n |-> 1])

TrimSpaceItems(items) == TrimRightItems(TrimLeftItems(items))

\* renderPath for which one segment rendering empty empties the whole path.
RECURSIVE renderSegs_AnyEmpty(_, _, _)
renderSegs_AnyEmpty(segs, data, outSegs) ==
    IF segs = <<>> THEN JoinTarget(outSegs)
    ELSE
      LET Kept(rendered) ==
            IF rendered = <<>> THEN JoinTarget(<<>>)
            ELSE renderSegs_AnyEmpty(Tail(segs), data, Append(outSegs, rendered))
          Rendered(r) ==
            IF r.err # "none" THEN [err |-> r.err, empty |-> TRUE, comps |-> <<>>]
            ELSE Kept(TrimSpace(r.out))
          Trimmed(trim) ==
            IF trim = <<>> THEN renderSegs_AnyEmpty(Tail(segs), data, outSegs)
            ELSE Rendered(renderString(trim, data))
      IN Trimmed(TrimSpaceItems(Head(segs)))

\* The loop of Renderer.renderPath over the segments, and the join after
\* it: the rendered, trimmed, non-empty segments joined, or the first error.
RECURSIVE renderSegs(_, _, _)
renderSegs(segs, data, outSegs) ==
    IF segs = <<>> THEN JoinTarget(outSegs)
    ELSE
      LET Kept(rendered) ==
            IF rendered = <<>> THEN renderSegs(Tail(segs), data, outSegs)
            ELSE renderSegs(Tail(segs), data, Append(outSegs, rendered))
          Rendered(r) ==
            IF r.err # "none" THEN [err |-> r.err, empty |-> TRUE, comps |-> <<>>]
            ELSE Kept(TrimSpace(r.out))
          Trimmed(trim) ==
            IF trim = <<>> THEN renderSegs(Tail(segs), data, outSegs)
            ELSE Rendered(renderString(trim, data))
      IN Trimmed(TrimSpaceItems(Head(segs)))

\* Renderer.renderPath
renderPath(rel, data) == renderSegs(rel, data, <<>>)

\* ------------------------------------------------------ destination tree

\* The destination file system of one render: a function from the paths
\* below outRoot (sequences of components) to what is there.  A path made
\* of ".." components only is a directory above outRoot; it exists.
DefaultPerm == 420
DirPerm == 493

Above(p) == Len(p) > 0 /\ \A i \in 1..Len(p) : p[i] = DotDot

IsDirAt(fs, p) == Above(p) \/ (p \in DOMAIN fs /\ fs[p].isDir)

IsFileAt(fs, p) == p \in DOMAIN fs /\ ~fs[p].isDir

\* filepath.Dir
Dir(p) ==
    IF p = <<>> \/ p[Len(p)] = DotDot THEN Append(p, DotDot)
    ELSE SubSeq(p, 1, Len(p) - 1)

DirNode(perm) == [isDir |-> TRUE, data |-> <<>>, perm |-> perm]

\* os.MkdirAll: an error, and nothing created, when the path or one of its
\* ancestors is a file; otherwise every missing directory on the path is
\* created.
MkdirAll(fs, p, perm) ==
    LET prefixes == {SubSeq(p, 1, i) : i \in 0..Len(p)}
        mine == {q \in prefixes : ~Above(q)}
    IN
    IF \E q \in prefixes : IsFileAt(fs, q) THEN [err |-> TRUE, fs |-> fs]
    ELSE [err |-> FALSE,
          fs |-> [q \in DOMAIN fs \cup mine |->
                    IF q \in DOMAIN fs THEN fs[q] ELSE DirNode(perm)]]

\* os.WriteFile: fails on a directory; truncates an existing file and keeps
\* its mode; creates a missing one with perm.
WriteFile(fs, p, bytes, perm) ==
    IF IsDirAt(fs, p) \/ ~IsDirAt(fs, Dir(p)) THEN [err |-> TRUE, fs |-> fs]
    ELSE [err |-> FALSE,
          fs |-> [q \in DOMAIN fs \cup {p} |->
                    IF q # p THEN fs[q]
                    ELSE [isDir |-> FALSE, data |-> bytes,
                          perm |-> IF p \in DOMAIN fs THEN fs[p].perm ELSE perm]]]

\* ------------------------------------------------------------- renderer

\* Renderer.processFileWithSettings on a source file e written to target.
processFileWithSettings(fs, e, target, data, settings) ==
    LET targetMode == IF settings.KeepPermissions THEN e.mode ELSE DefaultPerm
        Written(w, made, ev) ==
          IF w.err THEN [err |-> "write file", fs |-> made, ev |-> "error"]
          ELSE [err |-> "none", fs |-> w.fs, ev |-> ev]
        Rendered(r, made) ==
          IF r.err # "none" THEN [err |-> r.err, fs |-> made, ev |-> "error"]
          ELSE Written(WriteFile(made, target, r.out, targetMode), made, "render")
        Read(content, mk) ==
          IF mk.err THEN [err |-> "create target directory", fs |-> fs, ev |-> "error"]
          ELSE IF isBinary(content)
            THEN Written(WriteFile(mk.fs, target, content, targetMode), mk.fs, "copy")
          ELSE Rendered(renderBytes(e.content, data), mk.fs)
    IN Read(Bytes(e.content), MkdirAll(fs, Dir(target), DirPerm))

\* Renderer.processFile: the same, always with the source file's mode.
processFile(fs, e, target, data) ==
    LET Written(w, made, ev) ==
          IF w.err THEN [err |-> "write file", fs |-> made, ev |-> "error"]
          ELSE [err |-> "none", fs |-> w.fs, ev |-> ev]
        Rendered(r, made) ==
          IF r.err # "none" THEN [err |-> r.err, fs |-> made, ev |-> "error"]
          ELSE Written(WriteFile(made, target, r.out, e.mode), made, "render")
        Read(content, mk) ==
          IF mk.err THEN [err |-> "create target directory", fs |-> fs, ev |-> "error"]
          ELSE IF isBinary(content)
            THEN Written(WriteFile(mk.fs, target, content, e.mode), mk.fs, "copy")
          ELSE Rendered(renderBytes(e.content, data), mk.fs)
    IN Read(Bytes(e.content), MkdirAll(fs, Dir(target), DirPerm))

\* A callback that keeps an error to itself and returns nil.
Visit_Swallow(err, skipDir, fs, ev, target) ==
    [err |-> "none", skipDir |-> skipDir, fs |-> fs, ev |-> ev, target |-> target]

\* What one call of the WalkDir callback comes to: err, whether the walk is
\* to skip the directory (filepath.SkipDir), the destination afterwards, and
\* for the record what was done (ev) and where (target).
Visit(err, skipDir, fs, ev, target) ==
    [err |-> err, skipDir |-> skipDir, fs |-> fs, ev |-> ev, target |-> target]

\* The callback that goes on into a directory whose path rendered empty.
walkFnWithSettings_Descend(fs, rel, e, data, settings) ==
    IF shouldSkip(BaseBytes(rel), e.isDir) THEN Visit("none", e.isDir, fs, "skip", <<>>)
    ELSE IF shouldIgnoreWithSettings(rel, e.isDir, settings)
      THEN Visit("none", e.isDir, fs, "ignore", <<>>)
    ELSE
      LET Made(mk, target) ==
            IF mk.err THEN Visit("mkdir", FALSE, fs, "error", target)
            ELSE Visit("none", FALSE, mk.fs, "mkdir", target)
          Processed(r, target) == Visit(r.err, FALSE, r.fs, r.ev, target)
          At(t) ==
            IF t.err # "none" THEN Visit(t.err, FALSE, fs, "patherror", <<>>)
            ELSE IF t.empty THEN Visit("none", FALSE, fs, "empty", <<>>)
            ELSE IF e.isDir THEN Made(MkdirAll(fs, t.comps, DirPerm), t.comps)
            ELSE Processed(processFileWithSettings(fs, e, t.comps, data, settings),
                           t.comps)
      IN At(renderPath(rel, data))

\* The callback that renders the path before it looks at the ignore patterns.
walkFnWithSettings_RenderFirst(fs, rel, e, data, settings) ==
    IF shouldSkip(BaseBytes(rel), e.isDir) THEN Visit("none", e.isDir, fs, "skip", <<>>)
    ELSE
      LET At(t) ==
            IF t.err # "none" THEN Visit(t.err, FALSE, fs, "patherror", <<>>)
            ELSE Visit("none", e.isDir, fs, "ignore", <<>>)
      IN IF shouldIgnoreWithSettings(rel, e.isDir, settings)
           THEN At(renderPath(rel, data))
           ELSE walkFnWithSettings_Descend(fs, rel, e, data, settings)

\* The callback of Renderer.RenderTreeWithSettings on the entry at rel.
walkFnWithSettings(fs, rel, e, data, settings) ==
    IF shouldSkip(BaseBytes(rel), e.isDir) THEN Visit("none", e.isDir, fs, "skip", <<>>)
    ELSE IF shouldIgnoreWithSettings(rel, e.isDir, settings)
      THEN Visit("none", e.isDir, fs, "ignore", <<>>)
    ELSE
      LET Made(mk, target) ==
            IF mk.err THEN Visit("mkdir", FALSE, fs, "error", target)
            ELSE Visit("none", FALSE, mk.fs, "mkdir", target)
          Processed(r, target) == Visit(r.err, FALSE, r.fs, r.ev, target)
          At(t) ==
            IF t.err # "none" THEN Visit(t.err, FALSE, fs, "patherror", <<>>)
            ELSE IF t.empty THEN Visit("none", e.isDir, fs, "empty", <<>>)
            ELSE IF e.isDir THEN Made(MkdirAll(fs, t.comps, DirPerm), t.comps)
            ELSE Processed(processFileWithSettings(fs, e, t.comps, data, settings),
                           t.comps)
      IN At(renderPath(rel, data))

\* The callback of Renderer.RenderTree.
walkFn(fs, rel, e, data) ==
    IF shouldSkip(BaseBytes(rel), e.isDir) THEN Visit("none", e.isDir, fs, "skip", <<>>)
    ELSE
      LET Made(mk, target) ==
            IF mk.err THEN Visit("mkdir", FALSE, fs, "error", target)
            ELSE Visit("none", FALSE, mk.fs, "mkdir", target)
          Processed(r, target) == Visit(r.err, FALSE, r.fs, r.ev, target)
          At(t) ==
            IF t.err # "none" THEN Visit(t.err, FALSE, fs, "patherror", <<>>)
            ELSE IF t.empty THEN Visit("none", e.isDir, fs, "empty", <<>>)
            ELSE IF e.isDir THEN Made(MkdirAll(fs, t.comps, DirPerm), t.comps)
            ELSE Processed(processFile(fs, e, t.comps, data), t.comps)
      IN At(renderPath(rel, data))

\* The entries of a source directory.
Children(tree, dir) ==
    {q \in DOMAIN tree : Len(q) = Len(dir) + 1 /\ IsPrefix(dir, q)}

\* The orders in which a set of entries can be listed.
RECURSIVE Listings(_)
Listings(S) ==
    IF S = {} THEN {<<>>}
    ELSE UNION {{<<p>> \o l : l \in Listings(S \ {p})} : p \in S}

\* A walk that takes the entries of a directory in any order.
ReadDirOrders_Unsorted(S) == Listings(S)

\* The orders filepath.WalkDir visits the entries of a directory in: one,
\* os.ReadDir's, sorted by file name.
ReadDirOrders(S) ==
    {l \in Listings(S) :
        \A i \in 1..(Len(l) - 1) : LessBytes(BaseBytes(l[i]), BaseBytes(l[i + 1]))}

\* ------------------------------------------------------- renders: state

VARIABLES
    src,          \* the template source tree: source path -> entry
    data,         \* the values mapping
    settings,     \* config.TemplateSettings
    withSettings, \* whether the caller uses RenderTreeWithSettings
    pc,           \* per render: "idle", "walking", "done" or "failed"
    stack,        \* per render: the source paths WalkDir has still to visit
    dst,          \* per render: its destination tree
    result,       \* per render: the error the call returned, or "none"
    trace,        \* per render: what each call of the callback did
    hooks,        \* config.Hooks: the two lists of command templates
    hk,           \* the hook executor: its stream, phase, command and position,
                  \* whether the phase's deadline has passed (expired), whether
                  \* descendants of the shell hold its output pipe (held)
    hlog,         \* the hook commands started so far, each with how it ended
    herr,         \* the error the hook phase returned, <<>> for nil
    gpc,          \* where Generate is, "none" when it is not what runs
    stages,       \* the stages Generate has begun, in order
    doc,          \* the configuration document handed to ParseCutrYAML
    parsed,       \* what ParseCutrYAML returned: the error and the Config
    order,        \* what GetVariableOrder returned
    checked,      \* a call of Variable.Validate: receiver, value and error
    rs,           \* the template source: what Resolve was asked and returned,
                  \* the temporary directory, the local path, the deferred cleanup
    call,         \* a call of one function of the engine: its arguments, and
                  \* its results once it has returned
    prog          \* a call of ShowProgress: the caller, the operation's task,
                  \* the ticker and the channel between them

vars == <<src, data, settings, withSettings, pc, stack, dst, result, trace,
          hooks, hk, hlog, herr, gpc, stages, doc, parsed, order, checked, rs,
          call, prog>>

hookVars == <<hk, hlog, herr>>
genVars == <<gpc, stages>>
cfgVars == <<doc, parsed, order, checked>>
auxVars == <<call, prog>>

\* No function is being called, ShowProgress is not running.
NoCall == [fn |-> "none", returned |-> FALSE]
NoProgress == [caller |-> "idle"]
AuxIdle ==
    /\ call = NoCall
    /\ prog = NoProgress

\* No document was handed over, nothing was parsed, asked or validated.
NoDoc == [name |-> <<>>, vkind |-> "none", entries |-> <<>>]
NoParse == [err |-> "pending"]
NoOrder == [set |-> FALSE, names |-> <<>>]
NoCheck == [returned |-> FALSE, err |-> ""]
\* What Resolve can be asked for: a source that looks like a git URL, or a
\* local path at which there is a directory, a file or nothing.
Sources == {"git", "dir", "file", "missing"}

\* Before Resolve is called.  path, cleanup and err are what Resolve
\* returns, cleanup being the directory the returned function removes
\* ("none" for nil); deferred is whether Generate has deferred it; tmp is
\* the temporary directory of a clone and local what is at the local path.
Unresolved(source) ==
    [source |-> source, path |-> "", cleanup |-> "none", err |-> "", deferred |-> FALSE,
     tmp |-> "none", local |-> IF source = "git" THEN "none" ELSE source]

ConfigIdle ==
    /\ doc = NoDoc
    /\ parsed = NoParse
    /\ order = NoOrder
    /\ checked = NoCheck

\* The same request is rendered into two destination directories, one call
\* after the other.
Runs == {1, 2}

\* ------------------------------------------------------ renders: inputs

MaxEntries == 3

nA == <<Lit(<<"a">>)>>
nB == <<Lit(<<"b">>)>>
nX == <<Var("x")>>
nGit == <<Lit(<<".", "g", "i", "t">>)>>
nCfg == <<Lit(<<"c", "u", "t", "r", ".", "y", "a", "m", "l">>)>>
nTmp == <<Lit(<<"n", ".", "t", "m", "p">>)>>
nCls == <<Lit(<<"[", "a", "]">>)>>

\* The places an entry of a source tree can be at.
UniversePaths ==
    { <<nA>>, <<nA, nB>>, <<nA, nX>>, <<nA, nX, nB>>, <<nA, nGit>>,
      <<nX>>, <<nX, nB>>, <<nGit>>, <<nGit, nB>>, <<nCfg>>, <<nTmp>>, <<nB>>, <<nCls>> }

PathSets ==
    {T \in SUBSET UniversePaths :
        /\ Cardinality(T) <= MaxEntries
        /\ \A p \in T : Len(p) > 1 => SubSeq(p, 1, Len(p) - 1) \in T}

\* File contents.
cPlain == <<Lit(<<"h", "i", "LF">>)>>
cVar == <<Lit(<<"v", "=">>), Var("x")>>
cGuard == <<Lit(<<"h", "i">>), If("f"), Var("x"), End>>
cCond == <<If("f"), Lit(<<"v", "=">>), Var("x"), End>>
cBad == <<Unclosed("x")>>
cBin == <<Lit(<<"NUL">>), Var("x")>>
cEdge == <<Run(<<"a">>, maxSampleSize - 1), Lit(<<"NUL">>), Var("x")>>
cLate == <<Run(<<"a">>, maxSampleSize), Lit(<<"NUL">>)>>

Contents == {cPlain, cVar, cGuard, cBad, cBin}

\* Contents longer than the sample isBinary looks at.
LongContents == {cEdge, cLate}

IsBFile(T, p) == p[Len(p)] = nB /\ ~\E q \in T : Len(q) > Len(p) /\ IsPrefix(p, q)

\* The contents the files named b of a tree on the paths T are tried with
\* (the long ones in a tree of one file).
BodiesOf(T) ==
    IF \E p \in T : IsBFile(T, p)
      THEN Contents \cup (IF Cardinality(T) = 1 THEN LongContents ELSE {})
      ELSE {cPlain}

\* The content of a file of another name.
BodyFor(name) ==
    IF name \in {nA, nCls} THEN cPlain
    ELSE IF name = nX THEN cCond
    ELSE cBad

FileEntry(content, mode) == [isDir |-> FALSE, content |-> content, mode |-> mode]
DirEntry == [isDir |-> TRUE, content |-> <<>>, mode |-> DirPerm]

\* What can be at path p of a tree on the paths T: a directory when it has
\* entries, else a file or (for some names) an empty directory.
EntriesAt(T, p, body) ==
    LET name == p[Len(p)] IN
    IF \E q \in T : Len(q) > Len(p) /\ IsPrefix(p, q) THEN {DirEntry}
    ELSE IF name = nB THEN {FileEntry(body, DirPerm)}
    ELSE {FileEntry(BodyFor(name), DefaultPerm)}
           \cup (IF name \in {nA, nX, nGit, nCls} THEN {DirEntry} ELSE {})

RECURSIVE TreesOn(_, _, _)
TreesOn(T, rest, body) ==
    IF rest = {} THEN {<<>>}
    ELSE LET p == CHOOSE q \in rest : TRUE IN
         UNION {{(p :> e) @@ g : e \in EntriesAt(T, p, body)} :
                   g \in TreesOn(T, rest \ {p}, body)}

SrcTrees ==
    UNION {UNION {TreesOn(T, T, body) : body \in BodiesOf(T)} : T \in PathSets}

\* The values mappings: x absent, empty or "a"; f absent, false or true.
NoValue == [kind |-> "none", s |-> <<>>, v |-> FALSE]

MapOf(rec) == [k \in {kk \in DOMAIN rec : rec[kk] # NoValue} |-> rec[k]]

ValueMaps ==
    {MapOf([x |-> vx, f |-> vf]) :
        vx \in {NoValue, StrVal(<<>>), StrVal(<<"a">>)},
        vf \in {NoValue, BoolVal(FALSE), BoolVal(TRUE)}}

ZeroSettings == [IgnorePatterns |-> <<>>, KeepPermissions |-> FALSE]

PatternLists ==
    { <<>>,
      <<Text(<<"*", ".", "t", "m", "p">>), Text(<<"a", "/", "*">>)>>,
      <<Text(<<"[", "a", "]">>)>> }

SettingsSet ==
    {[IgnorePatterns |-> ps, KeepPermissions |-> FALSE] : ps \in PatternLists}
       \cup {[IgnorePatterns |-> <<>>, KeepPermissions |-> TRUE]}

\* --------------------------------------------------------- hooks: state

NoHooks == [PreGeneration |-> <<>>, PostGeneration |-> <<>>]

\* An Executor that runs nothing yet: New() has no stream, NewWithStream one.
IdleExecutor(stream) ==
    [stream |-> stream, phase |-> "none", idx |-> 0, state |-> "idle",
     expired |-> FALSE, held |-> FALSE, workDir |-> ""]

\* ----------------------------------------------------- renders: actions

InitRender ==
    /\ ConfigIdle
    /\ AuxIdle
    /\ rs = Unresolved("dir")
    /\ src \in SrcTrees
    /\ data \in ValueMaps
    /\ withSettings \in BOOLEAN
    /\ settings \in (IF withSettings THEN SettingsSet ELSE {ZeroSettings})
    /\ pc = [r \in Runs |-> "idle"]
    /\ stack = [r \in Runs |-> <<>>]
    /\ dst = [r \in Runs |-> <<>>]
    /\ result = [r \in Runs |-> "none"]
    /\ trace = [r \in Runs |-> <<>>]
    /\ hooks = NoHooks
    /\ hk = IdleExecutor(FALSE)
    /\ hlog = <<>>
    /\ herr = <<>>
    /\ gpc = "none"
    /\ stages = <<>>

Ended(r) == pc[r] \in {"done", "failed"}

\* The start of a render: os.MkdirAll(outRoot), then WalkDir reads the root
\* (the callback returns nil on the root itself).
StartWalk(r) ==
    /\ pc[r] = "idle"
    /\ \A q \in Runs : q < r => Ended(q)
    /\ \E kids \in ReadDirOrders(Children(src, <<>>)) :
         /\ stack' = [stack EXCEPT ![r] = kids]
         /\ pc' = [pc EXCEPT ![r] = IF kids = <<>> THEN "done" ELSE "walking"]
    /\ dst' = [dst EXCEPT ![r] = MkdirAll(dst[r], <<>>, DirPerm).fs]
    /\ UNCHANGED <<src, data, settings, withSettings, result, trace>>

\* Renderer.RenderTree is called.
RenderTree(r) ==
    /\ ~withSettings
    /\ gpc = "none"
    /\ StartWalk(r)
    /\ UNCHANGED <<hooks, cfgVars, auxVars, rs, hookVars, genVars>>

\* Renderer.RenderTreeWithSettings is called.
RenderTreeWithSettings(r) ==
    /\ withSettings
    /\ gpc = "none"
    /\ StartWalk(r)
    /\ UNCHANGED <<hooks, cfgVars, auxVars, rs, hookVars, genVars>>

\* WalkDir visits the next entry: one call of the callback, then the
\* entries of a directory that was not skipped are put in front of what is
\* still to visit; an error ends the walk and the call.
WalkStep(r) ==
    /\ pc[r] = "walking"
    /\ stack[r] # <<>>
    /\ \E rel \in {Head(stack[r])} :
       \E v \in {IF withSettings
                   THEN walkFnWithSettings(dst[r], rel, src[rel], data, settings)
                   ELSE walkFn(dst[r], rel, src[rel], data)} :
       \E kids \in (IF src[rel].isDir /\ ~v.skipDir /\ v.err = "none"
                      THEN ReadDirOrders(Children(src, rel)) ELSE {<<>>}) :
       \E todo \in {kids \o Tail(stack[r])} :
          /\ dst' = [dst EXCEPT ![r] = v.fs]
          /\ trace' = [trace EXCEPT ![r] =
                          Append(@, [rel |-> rel, ev |-> v.ev, target |-> v.target,
                                     err |-> v.err, changed |-> v.fs # dst[r]])]
          /\ result' = [result EXCEPT ![r] = v.err]
          /\ IF v.err # "none"
               THEN /\ stack' = [stack EXCEPT ![r] = <<>>]
                    /\ pc' = [pc EXCEPT ![r] = "failed"]
               ELSE /\ stack' = [stack EXCEPT ![r] = todo]
                    /\ pc' = [pc EXCEPT ![r] = IF todo = <<>> THEN "done" ELSE "walking"]
    /\ UNCHANGED <<src, data, settings, withSettings, hooks, cfgVars, auxVars, rs, hookVars, genVars>>

\* One render of a request.
NextRender ==
    \/ RenderTree(1)
    \/ RenderTreeWithSettings(1)
    \/ WalkStep(1)

SpecRender == InitRender /\ [][NextRender]_vars

\* Two renders of the same request, into two destination directories.
NextRenderTwice ==
    \E r \in Runs :
       \/ RenderTree(r)
       \/ RenderTreeWithSettings(r)
       \/ WalkStep(r)

SpecRenderTwice == InitRender /\ [][NextRenderTwice]_vars

\* ------------------------------------------------------ renders: claims

\* The text refers to a key that values does not hold.
RefersToMissing(items, vals) ==
    \E i \in 1..Len(items) : items[i].t \in {"var", "if"} /\ items[i].k \notin DOMAIN vals

\* Executing the text comes to evaluate a key that values does not hold.
EvaluatesMissing(items, vals) == ParseOK(items) /\ Exec(items, 0, vals).err

IsTextFile(e) == ~e.isDir /\ ~isBinary(Bytes(e.content))

\* The files of a destination tree, with what they hold.
FilesOf(fs) == {<<p, fs[p]>> : p \in {q \in DOMAIN fs : ~fs[q].isDir}}

\* The last call of the callback in render r.
Last(r) == trace[r][Len(trace[r])]

\* The callback got as far as rendering the entry's path: the entry was
\* neither self-excluded nor ignored.
Templated(ev) == ev.ev \notin {"skip", "ignore"}

\* The callback got as far as the file's content.
ContentReached(ev) == ev.ev \in {"copy", "render", "error"}

\* C1 as stated: whenever the callback reaches a text file whose path or
\* content refers to a key absent from values, the render fails.
C1_AsStated ==
    \A r \in Runs : \A i \in 1..Len(trace[r]) :
       LET ev == trace[r][i]
           e == src[ev.rel]
       IN (/\ IsTextFile(e)
           /\ Templated(ev)
           /\ \/ \E j \in 1..Len(ev.rel) : RefersToMissing(ev.rel[j], data)
              \/ RefersToMissing(e.content, data))
          => (ev.err # "none" /\ pc[r] = "failed")

\* C1, amended: a step of the walk on a text file of which a path segment,
\* or (the path having rendered to a non-empty path) the content, comes to
\* evaluate a key absent from values, ends the render with an error, and
\* leaves every file of the destination as it was: none is created or
\* modified.
C1_Case(r) ==
    /\ Len(trace'[r]) = Len(trace[r]) + 1
    /\ LET ev == trace'[r][Len(trace'[r])]
           e == src[ev.rel]
       IN /\ IsTextFile(e)
          /\ Templated(ev)
          /\ \/ \E j \in 1..Len(ev.rel) : EvaluatesMissing(TrimSpaceItems(ev.rel[j]), data)
             \/ (ContentReached(ev) /\ EvaluatesMissing(e.content, data))

C1_MissingKeyFails ==
    [][\A r \in Runs :
          C1_Case(r) =>
             /\ pc'[r] = "failed"
             /\ result'[r] # "none"
             /\ FilesOf(dst'[r]) = FilesOf(dst[r])]_vars

\* A render that failed on the content of a text file evaluating an absent
\* key, with the file's directory already there.
C1_Witness ==
    /\ pc[1] = "failed"
    /\ result[1] = "execute template"
    /\ LET ev == Last(1) IN
       /\ IsTextFile(src[ev.rel])
       /\ ev.ev = "error"
       /\ Len(ev.target) > 1
       /\ EvaluatesMissing(src[ev.rel].content, data)
       /\ ev.target \notin DOMAIN dst[1]

\* The entries below the directory at rel.
Below(rel) == {q \in DOMAIN src : Len(q) > Len(rel) /\ IsPrefix(rel, q)}

\* The source paths the callback was called on in render r, and those the
\* walk still has to visit.
Visited(r) == {trace[r][i].rel : i \in 1..Len(trace[r])}
Pending(r) == {stack[r][i] : i \in 1..Len(stack[r])}

\* The calls of the callback that put something in the destination.
Produced(ev) == ev.ev \in {"mkdir", "copy", "render"}

\* Every segment of the path renders, and to nothing once trimmed.
RendersEmpty(rel) ==
    \A j \in 1..Len(rel) :
       LET t == TrimSpaceItems(rel[j]) IN
       \/ t = <<>>
       \/ LET r == renderString(t, data) IN r.err = "none" /\ TrimSpace(r.out) = <<>>

\* C5: a directory the walk comes to (not self-excluded, not ignored) whose
\* whole path renders to the empty string is skipped with all below it: the
\* call creates nothing and returns no error, and no entry below it is ever
\* visited or waiting to be.
C5_EmptyDirSkipped ==
    \A r \in Runs : \A i \in 1..Len(trace[r]) :
       LET ev == trace[r][i] IN
       (src[ev.rel].isDir /\ Templated(ev) /\ RendersEmpty(ev.rel))
          => /\ ev.ev = "empty"
             /\ ev.err = "none"
             /\ ~ev.changed
             /\ Below(ev.rel) \cap (Visited(r) \cup Pending(r)) = {}

\* A render that succeeded having skipped a directory with a file in it.
C5_Witness ==
    /\ pc[1] = "done"
    /\ \E i \in 1..Len(trace[1]) :
          /\ trace[1][i].ev = "empty"
          /\ src[trace[1][i].rel].isDir
          /\ \E q \in Below(trace[1][i].rel) : ~src[q].isDir

\* Some ignore pattern matches the entry: its base name or its relative
\* path by glob, or, a directory, its base name by equality.
PatternHits(rel) ==
    \E i \in 1..Len(settings.IgnorePatterns) :
       LET pat == settings.IgnorePatterns[i] IN
       \/ Match(pat, BaseBytes(rel))
       \/ Match(pat, RelBytes(rel))
       \/ (src[rel].isDir /\ pat = BaseBytes(rel))

SelfExcluded(rel) == BaseBytes(rel) \in {DotGit, CutrYAML}

\* C6: in RenderTreeWithSettings an entry the walk comes to that some
\* pattern matches is left out (nothing produced, no error, and for a
\* directory nothing below it ever visited), and an entry no pattern
\* matches is never left out as ignored.
C6_IgnorePatterns ==
    withSettings =>
      \A r \in Runs : \A i \in 1..Len(trace[r]) :
         LET ev == trace[r][i] IN
         /\ (PatternHits(ev.rel) /\ ~SelfExcluded(ev.rel))
              => /\ ev.ev = "ignore"
                 /\ ev.err = "none"
                 /\ ~ev.changed
                 /\ Below(ev.rel) \cap (Visited(r) \cup Pending(r)) = {}
         /\ ~PatternHits(ev.rel) => ev.ev # "ignore"

\* A finished render that ignored a directory matched by its relative path
\* only, with an entry below it, and rendered an entry no pattern matched.
C6_Witness ==
    /\ withSettings
    /\ pc[1] = "done"
    /\ \E i \in 1..Len(trace[1]) :
          LET rel == trace[1][i].rel IN
          /\ trace[1][i].ev = "ignore"
          /\ src[rel].isDir
          /\ Below(rel) # {}
          /\ \A k \in 1..Len(settings.IgnorePatterns) :
                ~Match(settings.IgnorePatterns[k], BaseBytes(rel))
    /\ \E i \in 1..Len(trace[1]) : Produced(trace[1][i])

\* C7: an entry named .git or cutr.yaml, at any depth, that the walk comes
\* to produces nothing and no error, whatever values and settings are, and
\* nothing below it is ever visited.
C7_SelfExclusion ==
    \A r \in Runs :
       /\ \A i \in 1..Len(trace[r]) :
             LET ev == trace[r][i] IN
             SelfExcluded(ev.rel)
                => /\ ev.ev = "skip"
                   /\ ev.err = "none"
                   /\ ~ev.changed
                   /\ Below(ev.rel) \cap (Visited(r) \cup Pending(r)) = {}
       /\ \A p \in Visited(r) \cup Pending(r) :
             \A n \in 1..(Len(p) - 1) : ~SelfExcluded(SubSeq(p, 1, n))

\* A finished render that skipped a cutr.yaml file, or a .git below the
\* root, or a .git directory with a file in it.
C7_Witness ==
    /\ pc[1] = "done"
    /\ \E i \in 1..Len(trace[1]) :
          LET rel == trace[1][i].rel IN
          /\ trace[1][i].ev = "skip"
          /\ \/ Len(rel) > 1
             \/ Below(rel) # {}

\* A null byte among the first maxSampleSize bytes.
NullInSample(bytes) ==
    \E i \in 1..Len(bytes) : i <= maxSampleSize /\ bytes[i] = 0

\* C8: a file with a null byte in its first 1024 bytes is binary, and a
\* call of the callback that gets to its content (the entry not excluded,
\* its path rendered and not empty) never fails on a template: it either
\* writes the file with exactly the source bytes or fails on the file
\* system.
C8_Case(r) ==
    /\ Len(trace'[r]) = Len(trace[r]) + 1
    /\ LET ev == trace'[r][Len(trace'[r])] IN
       /\ ~src[ev.rel].isDir
       /\ NullInSample(Bytes(src[ev.rel].content))
       /\ Templated(ev)
       /\ ev.ev \notin {"empty", "patherror"}

C8_BinaryCopied ==
    [][\A r \in Runs :
          C8_Case(r) =>
             LET ev == trace'[r][Len(trace'[r])]
                 bytes == Bytes(src[ev.rel].content)
             IN /\ isBinary(bytes)
                /\ \/ /\ ev.ev = "copy"
                      /\ ev.err = "none"
                      /\ IsFileAt(dst'[r], ev.target)
                      /\ dst'[r][ev.target].data = bytes
                   \/ /\ ev.ev = "error"
                      /\ ev.err \in {"create target directory", "write file"}]_vars

\* A binary file that holds a placeholder for a key values lacks, the null
\* byte the last of the sample, was copied as it is.
C8_Witness ==
    \E i \in 1..Len(trace[1]) :
       LET ev == trace[1][i]
           e == src[ev.rel]
       IN /\ ev.ev = "copy"
          /\ RefersToMissing(e.content, data)
          /\ Len(Bytes(e.content)) >= maxSampleSize
          /\ Bytes(e.content)[maxSampleSize] = 0
          /\ dst[1][ev.target].data = Bytes(e.content)

\* C9: a call that writes a file whose content holds no placeholder syntax
\* writes the bytes of the source, whatever values is.
C9_PlainIdentical ==
    [][\A r \in Runs :
          (/\ Len(trace'[r]) = Len(trace[r]) + 1
           /\ LET ev == trace'[r][Len(trace'[r])] IN
              /\ ~src[ev.rel].isDir
              /\ ~HasPlaceholder(src[ev.rel].content)
              /\ ev.ev \in {"copy", "render"})
          => LET ev == trace'[r][Len(trace'[r])] IN
             /\ IsFileAt(dst'[r], ev.target)
             /\ dst'[r][ev.target].data = Bytes(src[ev.rel].content)]_vars

\* A text file without placeholders was rendered, not copied, and holds the
\* source bytes, white space at the end included.
C9_Witness ==
    \E i \in 1..Len(trace[1]) :
       LET ev == trace[1][i]
           e == src[ev.rel]
       IN /\ ev.ev = "render"
          /\ ~HasPlaceholder(e.content)
          /\ IsSpace(Bytes(e.content)[Len(Bytes(e.content))])
          /\ dst[1][ev.target].data = Bytes(e.content)

Msg(s) == [s |-> s, b |-> <<>>]
Inserted(b) == [s |-> "%s", b |-> b]

\* renderCommand without missingkey=error: a key that values lacks is no
\* error.
renderCommand_Lenient(command, vals) ==
    IF ~ParseWith(command, NoFuncs) THEN [err |-> "parse command template", out |-> <<>>]
    ELSE [err |-> "none", out |-> Exec(command, 0, vals).out]

\* Executor.renderCommand: the command is a template over the values, a
\* key that values lacks is an error.  The template is given no function.
renderCommand(command, vals) ==
    IF ~ParseWith(command, NoFuncs) THEN [err |-> "parse command template", out |-> <<>>]
    ELSE LET r == Exec(command, 0, vals) IN
         IF r.err THEN [err |-> "execute command template", out |-> <<>>]
         ELSE [err |-> "none", out |-> r.out]

\* The list a phase runs.
Commands(phase) ==
    IF phase = "pre-generation" THEN hooks.PreGeneration ELSE hooks.PostGeneration

\* What ExecutePreGeneration and ExecutePostGeneration wrap an error of
\* executeCommand in.
PhaseError(phase, err) ==
    <<Msg(IF phase = "pre-generation"
            THEN "execute pre-generation hook"
            ELSE "execute post-generation hook")>> \o err

\* How a started process can end: cmd.Wait's nil, a non-zero exit, a kill
\* by the context's deadline.
Statuses == {"exit status 0", "exit status 1", "signal: killed"}

\* What a process can have written to its standard error.
StderrTexts == {<<>>, Text(<<"e", "r", "r">>)}

\* How cmd.Run, or StdoutPipe and Start with a stream, can go: the process
\* runs, or the call fails with the words the code puts before the error.
StartOutcomes(stream) ==
    IF stream THEN {"running", "create stdout pipe", "start hook command"}
    ELSE {"running", "execute hook command"}

\* The loop over the phase's list is entered, with the caller's context,
\* whose deadline is still to come.
EnterPhase(phase, workDir) ==
    /\ hk' = [hk EXCEPT !.phase = phase, !.idx = 1, !.expired = FALSE, !.held = FALSE,
                        !.workDir = workDir,
                        !.state = IF Commands(phase) = <<>> THEN "ok" ELSE "next"]
    /\ herr' = <<>>
    /\ hlog' = hlog

\* Executor.ExecutePreGeneration is called.
ExecutePreGeneration ==
    /\ gpc = "none"
    /\ hk.state = "idle"
    /\ EnterPhase("pre-generation", "work")
    /\ UNCHANGED <<src, data, settings, withSettings, pc, stack, dst, result, trace,
                   hooks, cfgVars, auxVars, rs, genVars>>

\* Executor.ExecutePostGeneration is called, first or after the other phase
\* returned.
ExecutePostGeneration ==
    /\ gpc = "none"
    /\ hk.state \in {"idle", "ok", "failed"}
    /\ hk.phase # "post-generation"
    /\ EnterPhase("post-generation", "work")
    /\ UNCHANGED <<src, data, settings, withSettings, pc, stack, dst, result, trace,
                   hooks, cfgVars, auxVars, rs, genVars>>

\* executeCommand that renders the commands still to run before it starts
\* the next one.
executeCommand_RenderAhead ==
    /\ hk.state = "next"
    /\ LET ahead == {j \in hk.idx..Len(Commands(hk.phase)) :
                        renderCommand(Commands(hk.phase)[j], data).err # "none"}
           command == Commands(hk.phase)[IF ahead = {} THEN hk.idx
                                         ELSE CHOOSE j \in ahead : \A m \in ahead : j <= m]
           r == renderCommand(command, data)
       IN
       IF r.err # "none"
         THEN /\ hk' = [hk EXCEPT !.state = "failed"]
              /\ herr' = PhaseError(hk.phase, <<Msg("render hook command"), Msg(r.err)>>)
              /\ hlog' = hlog
         ELSE \E o \in StartOutcomes(hk.stream) \ (IF hk.expired THEN {"running"} ELSE {}) :
                 IF o = "running"
                   THEN /\ \E held \in (IF hk.stream THEN {FALSE} ELSE BOOLEAN) :
                              hk' = [hk EXCEPT !.state = "running", !.held = held]
                        /\ hlog' = Append(hlog, [phase |-> hk.phase, k |-> hk.idx,
                                                 text |-> r.out, status |-> "running",
                                                 dir |-> hk.workDir])
                        /\ herr' = herr
                   ELSE /\ hk' = [hk EXCEPT !.state = "failed"]
                        /\ herr' = PhaseError(hk.phase,
                                      <<Msg(o), Msg(IF hk.expired
                                                      THEN "context deadline exceeded"
                                                      ELSE "fork/exec")>>)
                        /\ hlog' = hlog
    /\ UNCHANGED <<src, data, settings, withSettings, pc, stack, dst, result, trace,
                   hooks, cfgVars, auxVars, rs, genVars>>


\* executeCommand up to where the process runs: the command is rendered and
\* sh -c is started on the rendered text.  With the context's deadline
\* passed, Start returns the context's error and starts nothing.  Without a
\* stream the shell's standard error is a pipe that cmd.Run reads to its
\* end, and that the shell's descendants may hold open.
executeCommand ==
    /\ hk.state = "next"
    /\ LET command == Commands(hk.phase)[hk.idx]
           r == renderCommand(command, data)
       IN
       IF r.err # "none"
         THEN /\ hk' = [hk EXCEPT !.state = "failed"]
              /\ herr' = PhaseError(hk.phase, <<Msg("render hook command"), Msg(r.err)>>)
              /\ hlog' = hlog
         ELSE \E o \in StartOutcomes(hk.stream) \ (IF hk.expired THEN {"running"} ELSE {}) :
                 IF o = "running"
                   THEN /\ \E held \in (IF hk.stream THEN {FALSE} ELSE BOOLEAN) :
                              hk' = [hk EXCEPT !.state = "running", !.held = held]
                        /\ hlog' = Append(hlog, [phase |-> hk.phase, k |-> hk.idx,
                                                 text |-> r.out, status |-> "running",
                                                 dir |-> hk.workDir])
                        /\ herr' = herr
                   ELSE /\ hk' = [hk EXCEPT !.state = "failed"]
                        /\ herr' = PhaseError(hk.phase,
                                      <<Msg(o), Msg(IF hk.expired
                                                      THEN "context deadline exceeded"
                                                      ELSE "fork/exec")>>)
                        /\ hlog' = hlog
    /\ UNCHANGED <<src, data, settings, withSettings, pc, stack, dst, result, trace,
                   hooks, cfgVars, auxVars, rs, genVars>>

\* The loop that goes on to the next command whatever the last one's end.
commandExits_KeepGoing ==
    /\ hk.state = "running"
    /\ ~hk.expired
    /\ \E status \in Statuses :
          /\ hlog' = [hlog EXCEPT ![Len(hlog)].status = status]
          /\ hk' = [hk EXCEPT !.idx = @ + 1, !.held = FALSE,
                              !.state = IF hk.idx = Len(Commands(hk.phase))
                                          THEN "ok" ELSE "next"]
          /\ herr' = herr
    /\ UNCHANGED <<src, data, settings, withSettings, pc, stack, dst, result, trace,
                   hooks, cfgVars, auxVars, rs, genVars>>

\* cmd.Wait, or cmd.Run, returns for a shell that ended with this status:
\* nil takes the loop to the next command or to its end, an error is
\* wrapped and returned.
WaitReturns(status, stderr) ==
    IF status = "exit status 0"
      THEN /\ hk' = [hk EXCEPT !.idx = @ + 1, !.held = FALSE,
                               !.state = IF hk.idx = Len(Commands(hk.phase))
                                           THEN "ok" ELSE "next"]
           /\ herr' = herr
      ELSE /\ hk' = [hk EXCEPT !.state = "failed", !.held = FALSE]
           /\ herr' = PhaseError(hk.phase,
                         <<Msg("execute hook command"), Msg(status)>>
                         \o (IF ~hk.stream /\ stderr # <<>>
                               THEN <<Msg("stderr"), Inserted(stderr)>>
                               ELSE <<>>))

\* The shell ended with this status.  cmd.Run returns at once when nothing
\* else holds the pipe, and else stays in its read of the pipe.
ShellEnds(status) ==
    /\ hlog' = [hlog EXCEPT ![Len(hlog)].status = status]
    /\ IF hk.held
         THEN /\ hk' = [hk EXCEPT !.state = "draining"]
              /\ herr' = herr
         ELSE \E stderr \in StderrTexts : WaitReturns(status, stderr)

\* The rest of executeCommand and the loop around it: the process ends
\* before the deadline, by itself or by a signal from elsewhere.
commandExits ==
    /\ hk.state = "running"
    /\ ~hk.expired
    /\ \E status \in Statuses : ShellEnds(status)
    /\ UNCHANGED <<src, data, settings, withSettings, pc, stack, dst, result, trace,
                   hooks, cfgVars, auxVars, rs, genVars>>

\* The deadline of the context the phase was called with passes.
deadlineExpires ==
    /\ hk.state \in {"next", "running", "draining"}
    /\ ~hk.expired
    /\ hk' = [hk EXCEPT !.expired = TRUE]
    /\ UNCHANGED <<src, data, settings, withSettings, pc, stack, dst, result, trace,
                   hooks, cfgVars, auxVars, rs, genVars, hlog, herr>>

\* exec.CommandContext: with the context done the shell is killed.
deadlineKills ==
    /\ hk.state = "running"
    /\ hk.expired
    /\ ShellEnds("signal: killed")
    /\ UNCHANGED <<src, data, settings, withSettings, pc, stack, dst, result, trace,
                   hooks, cfgVars, auxVars, rs, genVars>>

\* The descendants of an ended shell close its output pipe: the read of
\* cmd.Run comes to the end and the call returns.
pipeCloses ==
    /\ hk.state = "draining"
    /\ hlog' = hlog
    /\ \E stderr \in StderrTexts : WaitReturns(hlog[Len(hlog)].status, stderr)
    /\ UNCHANGED <<src, data, settings, withSettings, pc, stack, dst, result, trace,
                   hooks, cfgVars, auxVars, rs, genVars>>

\* --------------------------------------------------------- hooks: inputs

MaxCommands == 3

hPlain == <<Lit(<<"l", "s">>)>>
hVar == <<Lit(<<"l", "s", " ">>), Var("x")>>
hBad == <<Lit(<<"l", "s", " ">>), Unclosed("x")>>
hGuard == <<If("f"), Lit(<<"l", "s", " ">>), Var("x"), End>>

HookCommands == {hPlain, hVar, hBad, hGuard}

CommandLists(n) == UNION {[1..m -> HookCommands] : m \in 0..n}

\* Both lists, one of them of one command at most.
HookConfigs ==
    {c \in [PreGeneration : CommandLists(MaxCommands),
            PostGeneration : CommandLists(MaxCommands)] :
        Len(c.PreGeneration) <= 1 \/ Len(c.PostGeneration) <= 1}

HookValueMaps == {m \in ValueMaps : "f" \notin DOMAIN m \/ "x" \notin DOMAIN m}

\* The executor alone: a caller runs one phase, or the two in turn, on a
\* configuration and a values mapping.
InitHooks ==
    /\ ConfigIdle
    /\ AuxIdle
    /\ rs = Unresolved("dir")
    /\ src = <<>>
    /\ data \in HookValueMaps
    /\ withSettings = FALSE
    /\ settings = ZeroSettings
    /\ pc = [r \in Runs |-> "idle"]
    /\ stack = [r \in Runs |-> <<>>]
    /\ dst = [r \in Runs |-> <<>>]
    /\ result = [r \in Runs |-> "none"]
    /\ trace = [r \in Runs |-> <<>>]
    /\ hooks \in HookConfigs
    /\ \E stream \in BOOLEAN : hk = IdleExecutor(stream)
    /\ hlog = <<>>
    /\ herr = <<>>
    /\ gpc = "none"
    /\ stages = <<>>

NextHooks ==
    \/ ExecutePreGeneration
    \/ ExecutePostGeneration
    \/ executeCommand
    \/ commandExits
    \/ deadlineExpires
    \/ deadlineKills
    \/ pipeCloses

SpecHooks == InitHooks /\ [][NextHooks]_vars

\* --------------------------------------------------------- hooks: claims

Phases == {"pre-generation", "post-generation"}

\* The commands of a phase that were started, in the order of their start.
PhaseLog(phase) == SelectSeq(hlog, LAMBDA e : e.phase = phase)

\* C2: in a phase the commands started are, in order, the first ones of the
\* list, each started as its rendered text; all but the last started have
\* exited with status zero, so one runs at a time and none is started after
\* one that did not render, did not start or did not exit with zero; and
\* the phase returns nil only when every command of the list exited zero.
C2_InListOrder ==
    \A phase \in Phases :
       LET L == PhaseLog(phase)
           cmds == Commands(phase)
       IN
       /\ Len(L) <= Len(cmds)
       /\ \A i \in 1..Len(L) :
             /\ L[i].k = i
             /\ renderCommand(cmds[i], data).err = "none"
             /\ L[i].text = renderCommand(cmds[i], data).out
             /\ i < Len(L) => L[i].status = "exit status 0"
       /\ (hk.phase = phase /\ hk.state = "failed")
             => (Len(L) < hk.idx \/ L[hk.idx].status \notin {"exit status 0", "running"})
       /\ (hk.phase = phase /\ hk.state = "ok")
             => /\ Len(L) = Len(cmds)
                /\ \A i \in 1..Len(L) : L[i].status = "exit status 0"

\* A phase of three commands failed at the second, which exited with a
\* status other than zero; the third, which renders, was not started.
C2_Witness ==
    \E phase \in Phases :
       /\ hk.phase = phase
       /\ hk.state = "failed"
       /\ Len(Commands(phase)) = 3
       /\ Len(PhaseLog(phase)) = 2
       /\ PhaseLog(phase)[2].status = "exit status 1"
       /\ renderCommand(Commands(phase)[3], data).err = "none"

\* The bytes sub are somewhere in the bytes b.
Contains(b, sub) ==
    \E i \in 0..(Len(b) - Len(sub)) : SubSeq(b, i + 1, i + Len(sub)) = sub

\* The message has the name of the phase in it.
NamesPhase(err, phase) ==
    \E i \in 1..Len(err) :
       err[i].s = (IF phase = "pre-generation"
                     THEN "execute pre-generation hook"
                     ELSE "execute post-generation hook")

\* The message has the text of the command in it, as written in the list
\* or as rendered.
NamesCommand(err, command) ==
    \E i \in 1..Len(err) :
       /\ err[i].b # <<>>
       /\ \/ Contains(err[i].b, Bytes(command))
          \/ Contains(err[i].b, renderCommand(command, data).out)

\* C3, as the claim states it: when a command of a phase fails (an exit
\* status other than zero, a kill by signal, a failure to start), the error
\* the phase returns names the phase and has the text of the failing
\* command.
C3_ErrorNamesPhaseAndCommand ==
    (hk.state = "failed" /\ herr[2].s # "render hook command")
       => /\ NamesPhase(herr, hk.phase)
          /\ NamesCommand(herr, Commands(hk.phase)[hk.idx])

\* ------------------------------------------------------------- Generate

\* The stages of Generate, by the names they are logged under.
StageOrder ==
    <<"resolve", "load config", "collect values", "pre-generation hooks",
      "render", "post-generation hooks">>

StageOf(hookType) ==
    IF hookType = "pre-generation" THEN "pre-generation hooks" ELSE "post-generation hooks"

\* Resolve that hands out a cleanup function for a local directory too.
ResolveSource_CleanLocal(source, made, cloned) ==
    IF source = "git"
      THEN IF ~made THEN [path |-> "", cleanup |-> "none", err |-> "mkdir temp", tmp |-> "none"]
           ELSE IF ~cloned
             THEN [path |-> "", cleanup |-> "tmp", err |-> "clone", tmp |-> "exists"]
           ELSE [path |-> "tmp", cleanup |-> "tmp", err |-> "", tmp |-> "exists"]
    ELSE IF source = "missing"
      THEN [path |-> "", cleanup |-> "none", err |-> "stat", tmp |-> "none"]
    ELSE IF source = "file"
      THEN [path |-> "", cleanup |-> "none", err |-> "template path must be a directory",
            tmp |-> "none"]
    ELSE [path |-> "local", cleanup |-> "local", err |-> "", tmp |-> "none"]

\* Resolver.Resolve.  For a git-like source a temporary directory is made
\* (made: os.MkdirTemp succeeds) and the repository cloned into it (cloned:
\* git.PlainClone succeeds); a failed clone returns an error together with
\* the function that removes the directory.  A local path is returned as
\* it is when a directory is there, with no function.
ResolveSource(source, made, cloned) ==
    IF source = "git"
      THEN IF ~made THEN [path |-> "", cleanup |-> "none", err |-> "mkdir temp", tmp |-> "none"]
           ELSE IF ~cloned
             THEN [path |-> "", cleanup |-> "tmp", err |-> "clone", tmp |-> "exists"]
           ELSE [path |-> "tmp", cleanup |-> "tmp", err |-> "", tmp |-> "exists"]
    ELSE IF source = "missing"
      THEN [path |-> "", cleanup |-> "none", err |-> "stat", tmp |-> "none"]
    ELSE IF source = "file"
      THEN [path |-> "", cleanup |-> "none", err |-> "template path must be a directory",
            tmp |-> "none"]
    ELSE [path |-> "local", cleanup |-> "none", err |-> "", tmp |-> "none"]

\* The deferred function runs: os.RemoveAll on the directory it was made for.
Cleaned(r) ==
    IF ~r.deferred THEN r
    ELSE IF r.cleanup = "tmp" THEN [r EXCEPT !.tmp = "removed"]
    ELSE IF r.cleanup = "local" THEN [r EXCEPT !.local = "missing"]
    ELSE r

\* Generate goes on or returns: when it returns, what it deferred runs.
Leaves(g) == IF g \in {"failed", "done"} THEN Cleaned(rs) ELSE rs

\* The head of Generate: Resolve is called; on its error Generate returns
\* at once, else it defers the cleanup function if there is one.
Resolve ==
    /\ gpc = "start"
    /\ stages' = Append(stages, "resolve")
    /\ \E made \in BOOLEAN, cloned \in BOOLEAN :
          \E r \in {ResolveSource(rs.source, made, cloned)} :
             /\ gpc' = IF r.err = "" THEN "resolved" ELSE "failed"
             /\ rs' = [rs EXCEPT !.path = r.path, !.cleanup = r.cleanup, !.err = r.err,
                                 !.tmp = r.tmp,
                                 !.deferred = (r.err = "" /\ r.cleanup # "none")]
    /\ UNCHANGED <<src, data, settings, withSettings, pc, stack, dst, result, trace,
                   hooks, cfgVars, auxVars, hookVars>>

\* Generator.loadConfig: cutr.yaml is read from the root of the template
\* and parsed; the document parses or does not.
loadConfig ==
    /\ gpc = "resolved"
    /\ stages' = Append(stages, "load config")
    /\ LET readable == <<nCfg>> \in DOMAIN src /\ ~src[<<nCfg>>].isDir IN
       \E accepted \in BOOLEAN : gpc' = IF readable /\ accepted THEN "loaded" ELSE "failed"
    /\ rs' = Leaves(gpc')
    /\ UNCHANGED <<src, data, settings, withSettings, pc, stack, dst, result, trace,
                   hooks, cfgVars, auxVars, hookVars>>

\* Collector.CollectValues: the prompts give the values, or an error.
CollectValues ==
    /\ gpc = "loaded"
    /\ stages' = Append(stages, "collect values")
    /\ \E ok \in BOOLEAN : gpc' = IF ok THEN "collected" ELSE "failed"
    /\ rs' = Leaves(gpc')
    /\ UNCHANGED <<src, data, settings, withSettings, pc, stack, dst, result, trace,
                   hooks, cfgVars, auxVars, hookVars>>

\* opts.OutputDir
OutputDir == "out"

\* executeHooks called with the template directory for both phases.
executeHooks_TemplateDir(hookType) ==
    /\ gpc = (IF hookType = "pre-generation" THEN "collected" ELSE "rendered")
    /\ stages' = Append(stages, StageOf(hookType))
    /\ IF Commands(hookType) = <<>>
         THEN /\ gpc' = (IF hookType = "pre-generation" THEN "hooked" ELSE "done")
              /\ UNCHANGED hookVars
         ELSE /\ gpc' = hookType
              /\ EnterPhase(hookType, rs.path)
    /\ rs' = Leaves(gpc')
    /\ UNCHANGED <<src, data, settings, withSettings, pc, stack, dst, result, trace, hooks, cfgVars, auxVars>>

\* Generator.executeHooks: nil at once on an empty list, else the phase of
\* a new executor is entered. After the post-generation hooks of an empty
\* list Generate returns nil.  Generate passes the template path as the
\* working directory of the pre-generation hooks and the output directory
\* as that of the post-generation hooks.
executeHooks(hookType) ==
    /\ gpc = (IF hookType = "pre-generation" THEN "collected" ELSE "rendered")
    /\ stages' = Append(stages, StageOf(hookType))
    /\ IF Commands(hookType) = <<>>
         THEN /\ gpc' = (IF hookType = "pre-generation" THEN "hooked" ELSE "done")
              /\ UNCHANGED hookVars
         ELSE /\ gpc' = hookType
              /\ EnterPhase(hookType, IF hookType = "pre-generation" THEN rs.path ELSE OutputDir)
    /\ rs' = Leaves(gpc')
    /\ UNCHANGED <<src, data, settings, withSettings, pc, stack, dst, result, trace, hooks, cfgVars, auxVars>>

\* A Generate that goes on whatever the hook phase returned.
hooksReturn_GoOn ==
    /\ gpc \in Phases
    /\ hk.state \in {"ok", "failed"}
    /\ gpc' = (IF gpc = "pre-generation" THEN "hooked" ELSE "done")
    /\ rs' = Leaves(gpc')
    /\ UNCHANGED <<src, data, settings, withSettings, pc, stack, dst, result, trace,
                   hooks, cfgVars, auxVars, hookVars, stages>>

\* The hook phase returns to Generate: its error is Generate's, nil takes
\* Generate on, after the post-generation hooks to its end.
hooksReturn ==
    /\ gpc \in Phases
    /\ hk.state \in {"ok", "failed"}
    /\ gpc' = (IF hk.state = "failed" THEN "failed"
               ELSE IF gpc = "pre-generation" THEN "hooked" ELSE "done")
    /\ rs' = Leaves(gpc')
    /\ UNCHANGED <<src, data, settings, withSettings, pc, stack, dst, result, trace,
                   hooks, cfgVars, auxVars, hookVars, stages>>

\* Generator.generateFiles: RenderTreeWithSettings into the output
\* directory.
generateFiles ==
    /\ gpc = "hooked"
    /\ stages' = Append(stages, "render")
    /\ gpc' = "render"
    /\ StartWalk(1)
    /\ UNCHANGED <<hooks, cfgVars, auxVars, rs, hookVars>>

\* The render returns to Generate.
renderReturn ==
    /\ gpc = "render"
    /\ Ended(1)
    /\ gpc' = (IF pc[1] = "done" THEN "rendered" ELSE "failed")
    /\ rs' = Leaves(gpc')
    /\ UNCHANGED <<src, data, settings, withSettings, pc, stack, dst, result, trace,
                   hooks, cfgVars, auxVars, hookVars, stages>>

\* The templates Generate is run on: with and without a cutr.yaml at the
\* root, with files that render and files that do not.
GenPathSets ==
    { {<<nCfg>>}, {<<nA>>}, {<<nCfg>>, <<nA>>}, {<<nCfg>>, <<nX>>},
      {<<nCfg>>, <<nA>>, <<nA, nB>>} }

GenTrees == UNION {TreesOn(T, T, cPlain) : T \in GenPathSets}

GenHooks ==
    {c \in HookConfigs :
        /\ Len(c.PreGeneration) <= 1
        /\ Len(c.PostGeneration) <= 1
        /\ \A i \in 1..Len(c.PreGeneration) : c.PreGeneration[i] # hBad
        /\ \A i \in 1..Len(c.PostGeneration) : c.PostGeneration[i] # hBad}

\* Generate is called: the template, the hooks of its configuration and
\* the values the prompts will give are what the run works on; the hook
\* executor is hooks.New(), without a stream.
InitGen ==
    /\ ConfigIdle
    /\ AuxIdle
    /\ \E source \in Sources : rs = Unresolved(source)
    /\ src \in GenTrees
    /\ data \in ValueMaps
    /\ withSettings = TRUE
    /\ settings = ZeroSettings
    /\ pc = [r \in Runs |-> "idle"]
    /\ stack = [r \in Runs |-> <<>>]
    /\ dst = [r \in Runs |-> <<>>]
    /\ result = [r \in Runs |-> "none"]
    /\ trace = [r \in Runs |-> <<>>]
    /\ hooks \in GenHooks
    /\ hk = IdleExecutor(FALSE)
    /\ hlog = <<>>
    /\ herr = <<>>
    /\ gpc = "start"
    /\ stages = <<>>

NextGen ==
    \/ Resolve
    \/ loadConfig
    \/ CollectValues
    \/ executeHooks("pre-generation")
    \/ executeCommand
    \/ commandExits
    \/ deadlineExpires
    \/ deadlineKills
    \/ pipeCloses
    \/ hooksReturn
    \/ generateFiles
    \/ WalkStep(1)
    \/ renderReturn
    \/ executeHooks("post-generation")

SpecGen == InitGen /\ [][NextGen]_vars

\* ----------------------------------------------------- Generate: claims

\* Every command of the phase's list was started and exited with zero.
PhaseSucceeded(phase) ==
    /\ Len(PhaseLog(phase)) = Len(Commands(phase))
    /\ \A i \in 1..Len(PhaseLog(phase)) : PhaseLog(phase)[i].status = "exit status 0"

\* C4: the stages Generate has begun are the first ones of resolve, load
\* config, collect values, pre-generation hooks, render, post-generation
\* hooks, each once; a hook command of the first phase is started only
\* after the values were collected, the renderer is called only after
\* every pre-generation command exited zero, a post-generation command is
\* started only after the render succeeded; a failed pre-generation phase
\* leaves the renderer uncalled and the destination untouched, a failed
\* render leaves the post-generation list unrun; Generate ends well only
\* after all six, and once it has failed or ended nothing more is done.
C4_StagesInOrder ==
    /\ stages = SubSeq(StageOrder, 1, Len(stages))
    /\ PhaseLog("pre-generation") # <<>> => Len(stages) >= 4
    /\ (pc[1] # "idle" \/ dst[1] # <<>>)
          => (Len(stages) >= 5 /\ PhaseSucceeded("pre-generation"))
    /\ (PhaseLog("post-generation") # <<>> \/ hk.phase = "post-generation")
          => (Len(stages) = 6 /\ pc[1] = "done" /\ PhaseSucceeded("pre-generation"))
    /\ (gpc = "failed" /\ hk.phase = "pre-generation" /\ hk.state = "failed")
          => (pc[1] = "idle" /\ dst[1] = <<>> /\ trace[1] = <<>>
              /\ PhaseLog("post-generation") = <<>>)
    /\ pc[1] = "failed" => (PhaseLog("post-generation") = <<>> /\ Len(stages) <= 5)
    /\ gpc = "done"
          => (Len(stages) = 6 /\ pc[1] = "done"
              /\ PhaseSucceeded("pre-generation") /\ PhaseSucceeded("post-generation"))
    /\ gpc \in {"failed", "done"} => ~ENABLED NextGen

\* Generate failed in the render, after a pre-generation command ran, with
\* a post-generation command in the list that was never started.
C4_Witness ==
    /\ gpc = "failed"
    /\ pc[1] = "failed"
    /\ PhaseLog("pre-generation") # <<>>
    /\ hooks.PostGeneration # <<>>
    /\ stages = SubSeq(StageOrder, 1, 5)

\* ------------------------------------- renders into a used destination

\* A mode a file of the destination can have had before the render: the
\* default without the group's and the others' read bits (0600).
PrivatePerm == DefaultPerm - 36

\* The destination directory before the call: absent, or there with a file
\* or a directory named a in it, or with a file named b.
OldFile == [isDir |-> FALSE, data |-> Text(<<"x">>), perm |-> PrivatePerm]

Destinations ==
    { <<>>,
      (<<>> :> DirNode(DirPerm)) @@ (<<Text(<<"a">>)>> :> OldFile),
      (<<>> :> DirNode(DirPerm)) @@ (<<Text(<<"a">>)>> :> DirNode(DirPerm)),
      (<<>> :> DirNode(DirPerm)) @@ (<<Text(<<"b">>)>> :> OldFile) }

\* The templates rendered into it: those of two entries at most.
SmallTrees == {t \in SrcTrees : Cardinality(DOMAIN t) <= 2}

InitRenderOver ==
    /\ ConfigIdle
    /\ AuxIdle
    /\ rs = Unresolved("dir")
    /\ src \in SmallTrees
    /\ data \in ValueMaps
    /\ withSettings \in BOOLEAN
    /\ settings \in (IF withSettings THEN SettingsSet ELSE {ZeroSettings})
    /\ pc = [r \in Runs |-> "idle"]
    /\ stack = [r \in Runs |-> <<>>]
    /\ \E d \in Destinations : dst = [r \in Runs |-> d]
    /\ result = [r \in Runs |-> "none"]
    /\ trace = [r \in Runs |-> <<>>]
    /\ hooks = NoHooks
    /\ hk = IdleExecutor(FALSE)
    /\ hlog = <<>>
    /\ herr = <<>>
    /\ gpc = "none"
    /\ stages = <<>>

SpecRenderOver == InitRenderOver /\ [][NextRender]_vars

\* The calls of the callback in render r that wrote a file which no later
\* call wrote again.
LastWrites(r) ==
    {i \in 1..Len(trace[r]) :
        /\ trace[r][i].ev \in {"copy", "render"}
        /\ \A j \in (i + 1)..Len(trace[r]) :
              trace[r][j].ev \in {"copy", "render"} => trace[r][j].target # trace[r][i].target}

\* C11, as the claim states it: after a successful RenderTreeWithSettings
\* every file the call wrote has the mode of its source file when
\* KeepPermissions is set and 0644 when it is not, whether or not a file
\* was at the path before the call.
C11_ModePolicy ==
    (withSettings /\ pc[1] = "done")
       => \A i \in LastWrites(1) :
             dst[1][trace[1][i].target].perm =
                (IF settings.KeepPermissions THEN src[trace[1][i].rel].mode ELSE DefaultPerm)

\* What a call that wrote a file is to have left there: the source bytes
\* of a binary file, the rendered text of another.
Expected(e) ==
    IF isBinary(Bytes(e.content)) THEN Bytes(e.content) ELSE renderBytes(e.content, data).out

\* The call of the callback came to an error of the file system or of a
\* template.
Failing(ev) == ev.ev \in {"patherror", "error"}

\* C12: a call of the callback that comes to an I/O, parse or execution
\* error is the last one of the walk: the render has failed with that very
\* error and nothing is left to visit; and in a failed render what the
\* earlier calls made is still there, each directory a directory, each file
\* with the content its last writer rendered.
C12_AbortNoRollback ==
    \A r \in Runs :
       /\ \A i \in 1..Len(trace[r]) :
             Failing(trace[r][i])
                => /\ i = Len(trace[r])
                   /\ pc[r] = "failed"
                   /\ trace[r][i].err # "none"
                   /\ result[r] = trace[r][i].err
                   /\ stack[r] = <<>>
       /\ pc[r] = "failed"
             => /\ Failing(Last(r))
                /\ \A i \in LastWrites(r) :
                      /\ IsFileAt(dst[r], trace[r][i].target)
                      /\ dst[r][trace[r][i].target].data = Expected(src[trace[r][i].rel])
                /\ \A i \in 1..Len(trace[r]) :
                      trace[r][i].ev = "mkdir" => IsDirAt(dst[r], trace[r][i].target)

\* A render failed at its second entry or later, after a file was written,
\* with an entry of the root left unvisited.
C12_Witness ==
    /\ pc[1] = "failed"
    /\ LastWrites(1) # {}
    /\ \E p \in DOMAIN src : Len(p) = 1 /\ p \notin Visited(1)

\* ---------------------------------------------------------- configuration

\* config.Variable: the fields the validation reads.  Min and Max are Go
\* ints, zero when the document does not set them.
Variable(type, choices, pattern, min, max) ==
    [Type |-> type, Choices |-> choices, Pattern |-> pattern, Min |-> min, Max |-> max]

\* The patterns of the model: one that compiles, one that does not.
pWord == "^a+$"
pOpen == "("
\* regexp.Compile succeeds.
Compiles(p) == p # pOpen
\* regexp.MatchString on the patterns and strings of the model.
MatchString(p, s) == p = pWord /\ s \in {"a", "aa"}

\* A Go value of type any: a string, an int, a float64 (kept as twice its
\* value, so that halves are exact), a bool, or nil.
GoString(s) == [kind |-> "string", s |-> s, twice |-> 0, b |-> FALSE]
GoInt(n) == [kind |-> "int", s |-> "", twice |-> 2 * n, b |-> FALSE]
GoFloat(twice) == [kind |-> "float64", s |-> "", twice |-> twice, b |-> FALSE]
GoBool(b) == [kind |-> "bool", s |-> "", twice |-> 0, b |-> b]
GoNil == [kind |-> "nil", s |-> "", twice |-> 0, b |-> FALSE]

\* slices.Contains
SliceContains(seq, x) == \E i \in 1..Len(seq) : seq[i] = x

\* Validate, case "string".
ValidateString(v, value) ==
    IF value.kind # "string" THEN "expected string"
    ELSE IF v.Pattern # "" /\ ~Compiles(v.Pattern) THEN "invalid pattern"
    ELSE IF v.Pattern # "" /\ ~MatchString(v.Pattern, value.s) THEN "does not match pattern"
    ELSE ""

\* The choice case without the membership test.
ValidateChoice_AnyString(v, value) ==
    IF value.kind # "string" THEN "expected string for choice" ELSE ""

\* Validate, case "choice".
ValidateChoice(v, value) ==
    IF value.kind # "string" THEN "expected string for choice"
    ELSE IF SliceContains(v.Choices, value.s) THEN ""
    ELSE "is not a valid choice"

\* The number case with the bounds applied even when they are zero.
ValidateNumber_ZeroIsBound(v, value) ==
    IF value.kind \notin {"int", "float64"} THEN "expected number"
    ELSE IF value.twice < 2 * v.Min THEN "is below minimum"
    ELSE IF value.twice > 2 * v.Max THEN "is above maximum"
    ELSE ""

\* Validate, case "number": an int is converted to float64, the bounds are
\* compared as float64, a bound of zero is no bound.
ValidateNumber(v, value) ==
    IF value.kind \notin {"int", "float64"} THEN "expected number"
    ELSE IF v.Min # 0 /\ value.twice < 2 * v.Min THEN "is below minimum"
    ELSE IF v.Max # 0 /\ value.twice > 2 * v.Max THEN "is above maximum"
    ELSE ""

\* Validate, case "boolean".
ValidateBoolean(v, value) ==
    IF value.kind # "bool" THEN "expected boolean" ELSE ""

\* Variable.Validate: the error, "" for nil.  A type outside the four cases
\* falls through the switch.
Validate(v, value) ==
    CASE v.Type = "string"  -> ValidateString(v, value)
      [] v.Type = "choice"  -> ValidateChoice(v, value)
      [] v.Type = "number"  -> ValidateNumber(v, value)
      [] v.Type = "boolean" -> ValidateBoolean(v, value)
      [] OTHER -> ""

validTypes == {"string", "choice", "number", "boolean"}

\* validateVariable without the comparison of the two bounds.
validateVariable_NoRange(variable) ==
    IF variable.Type \notin validTypes THEN "invalid variable type"
    ELSE IF variable.Type = "choice" /\ Len(variable.Choices) = 0
         THEN "choices required for choice type"
    ELSE IF variable.Type = "string" /\ variable.Pattern # "" /\ ~Compiles(variable.Pattern)
         THEN "invalid pattern"
    ELSE ""

\* validateVariable: the error, "" for nil.
validateVariable(variable) ==
    IF variable.Type \notin validTypes THEN "invalid variable type"
    ELSE IF variable.Type = "choice" /\ Len(variable.Choices) = 0
         THEN "choices required for choice type"
    ELSE IF variable.Type = "number" /\ variable.Min # 0 /\ variable.Max # 0
                /\ variable.Min > variable.Max
         THEN "min cannot be greater than max"
    ELSE IF variable.Type = "string" /\ variable.Pattern # "" /\ ~Compiles(variable.Pattern)
         THEN "invalid pattern"
    ELSE ""

\* A configuration document as the YAML parser hands it over.  name is the
\* text of the name field, empty when the field is absent or empty.  vkind
\* is what the variables key holds: nothing ("absent"), a mapping, an alias
\* of a mapping anchored elsewhere in the document, or a sequence.  The
\* entries of the mapping are in document order.  An entry is a variable
\* declaration, or a merge key "<<" whose value is an alias of a mapping of
\* declarations (base).  A declaration is the Variable its fields give and
\* whether every field holds a value of the field's type (typed).
Decl(v, typed) == [v |-> v, typed |-> typed]
Declare(key, decl) == [key |-> key, merge |-> FALSE, decl |-> decl, base |-> <<>>]
MergeKey == Text(<<"<", "<">>)
Merge(base) ==
    [key |-> MergeKey, merge |-> TRUE, decl |-> Decl(Variable("", <<>>, "", 0, 0), TRUE),
     base |-> base]

\* The most entries a variables mapping of the model has.
MaxVars == 2

Keys(entries) == [i \in 1..Len(entries) |-> entries[i].key]
Unique(seq) == \A i, j \in 1..Len(seq) : seq[i] = seq[j] => i = j
Declared(entries) == {i \in 1..Len(entries) : ~entries[i].merge}
Merged(entries) ==
    {<<i, j>> \in (1..Len(entries)) \X (1..MaxVars) :
        entries[i].merge /\ j <= Len(entries[i].base)}

\* yaml.Unmarshal into Config fails: a sequence where the variables mapping
\* is expected, a field value of another type than the field, or a mapping
\* key defined twice.
yamlFails(d) ==
    \/ d.vkind = "sequence"
    \/ ~Unique(Keys(d.entries))
    \/ \E i \in Declared(d.entries) : ~d.entries[i].decl.typed
    \/ \E m \in Merged(d.entries) : ~d.entries[m[1]].base[m[2]].decl.typed

\* Config.Variables as yaml.Unmarshal fills it: the declared variables and,
\* for a merge key, those of the mapping it names; a declared variable
\* overrides a merged one.
decodeVariables(entries) ==
    LET own == {entries[i].key : i \in Declared(entries)}
        got == {entries[m[1]].base[m[2]].key : m \in Merged(entries)}
    IN [k \in own \cup got |->
          IF k \in own
          THEN entries[CHOOSE i \in Declared(entries) : entries[i].key = k].decl.v
          ELSE LET m == CHOOSE mm \in Merged(entries) :
                           entries[mm[1]].base[mm[2]].key = k
               IN entries[m[1]].base[m[2]].decl.v]

\* extractVariableOrder: the key nodes of the variables mapping in document
\* order; empty when the value of the variables key is not a mapping node.
extractVariableOrder(d) ==
    IF d.vkind = "mapping" THEN Keys(d.entries) ELSE <<>>

zeroConfig == [Name |-> <<>>, Variables |-> <<>>, variableOrder |-> <<>>]

\* ParseCutrYAML: the error ("" for nil) and the Config.
ParseCutrYAML(d) ==
    LET Loaded(variables) ==
            IF d.name = <<>> THEN [err |-> "name is required", config |-> zeroConfig]
            ELSE IF \E k \in DOMAIN variables : validateVariable(variables[k]) # ""
            THEN [err |-> "variable", config |-> zeroConfig]
            ELSE [err |-> "",
                  config |-> [Name |-> d.name, Variables |-> variables,
                              variableOrder |-> extractVariableOrder(d)]]
    IN IF yamlFails(d) THEN [err |-> "yaml", config |-> zeroConfig]
       ELSE Loaded(decodeVariables(d.entries))

\* sort.Strings on a set of names.
SortStrings(S) ==
    CHOOSE s \in [1..Cardinality(S) -> S] :
        \A i, j \in 1..Cardinality(S) : i < j => LessBytes(s[i], s[j])

\* Config.GetVariableOrder
GetVariableOrder(c) ==
    IF Len(c.variableOrder) > 0 THEN c.variableOrder
    ELSE SortStrings(DOMAIN c.Variables)

\* ------------------------------------------- configuration: the inputs

nameA == Text(<<"a">>)
nameB == Text(<<"b">>)
VarNames == {nameA, nameB}
DocNames == {<<>>, Text(<<"t">>)}

vString == Variable("string", <<>>, "", 0, 0)
vWord == Variable("string", <<>>, pWord, 0, 0)
vOpen == Variable("string", <<>>, pOpen, 0, 0)
vChoice == Variable("choice", <<"m", "g">>, "", 0, 0)
vNoChoices == Variable("choice", <<>>, "", 0, 0)
vFree == Variable("number", <<>>, "", 0, 0)
vPort == Variable("number", <<>>, "", 1024, 65535)
vFloor == Variable("number", <<>>, "", 1024, 0)
vCeiling == Variable("number", <<>>, "", 0, 65535)
vBelowZero == Variable("number", <<>>, "", 0 - 5, 0 - 1)
vInverted == Variable("number", <<>>, "", 65535, 1024)
vBool == Variable("boolean", <<>>, "", 0, 0)
vText == Variable("text", <<>>, "", 0, 0)
vNoType == Variable("", <<>>, "", 0, 0)

Variables ==
    {vString, vWord, vOpen, vChoice, vNoChoices, vFree, vPort, vFloor, vCeiling,
     vBelowZero, vInverted, vBool, vText, vNoType}

\* The declarations of the documents: each Variable with fields of the
\* right types, and one whose min is not an integer.
Decls == {Decl(v, TRUE) : v \in Variables} \cup {Decl(vFree, FALSE)}

\* The mappings a merge key names.
Bases ==
    {<<>>} \cup {<<[key |-> k, decl |-> Decl(v, TRUE)]>> :
                    k \in VarNames, v \in {vString, vNoType}}

Entries ==
    {Declare(k, d) : k \in VarNames, d \in Decls} \cup {Merge(b) : b \in Bases}

EntryLists == UNION {[1..n -> Entries] : n \in 0..MaxVars}

Documents ==
    {[name |-> n, vkind |-> k, entries |-> es] :
        n \in DocNames, k \in {"mapping", "alias"}, es \in EntryLists}
    \cup {[name |-> n, vkind |-> k, entries |-> <<>>] :
            n \in DocNames, k \in {"absent", "sequence"}}

GoValues ==
    {GoString(t) : t \in {"", "a", "b", "m", "g", "8080", "true"}}
    \cup {GoInt(n) : n \in {0 - 7, 0 - 3, 0, 500, 1023, 1024, 8080, 65535, 65536, 70000}}
    \cup {GoFloat(h) : h \in {0 - 1, 1, 2047, 2048, 16160, 131070, 131071}}
    \cup {GoBool(b) : b \in BOOLEAN}
    \cup {GoNil}

\* ------------------------------------------ configuration: the actions

\* The renderer, the executor and Generate are not what runs.
EngineIdle ==
    /\ src = <<>>
    /\ data = <<>>
    /\ withSettings = FALSE
    /\ settings = ZeroSettings
    /\ pc = [r \in Runs |-> "idle"]
    /\ stack = [r \in Runs |-> <<>>]
    /\ dst = [r \in Runs |-> <<>>]
    /\ result = [r \in Runs |-> "none"]
    /\ trace = [r \in Runs |-> <<>>]
    /\ hooks = NoHooks
    /\ hk = IdleExecutor(FALSE)
    /\ hlog = <<>>
    /\ herr = <<>>
    /\ gpc = "none"
    /\ stages = <<>>

engineVars ==
    <<src, data, settings, withSettings, pc, stack, dst, result, trace, hooks,
      hookVars, genVars, rs, auxVars>>

\* A call of ParseCutrYAML on the document.
CallParse ==
    /\ doc # NoDoc
    /\ parsed = NoParse
    /\ parsed' = ParseCutrYAML(doc)
    /\ UNCHANGED <<doc, order, checked, engineVars>>

\* A call of GetVariableOrder on the Config ParseCutrYAML returned.
CallGetVariableOrder ==
    /\ parsed.err = ""
    /\ ~order.set
    /\ order' = [set |-> TRUE, names |-> GetVariableOrder(parsed.config)]
    /\ UNCHANGED <<doc, parsed, checked, engineVars>>

\* A call of Validate on a Variable with a value.
CallValidate ==
    /\ checked # NoCheck
    /\ ~checked.returned
    /\ checked' = [checked EXCEPT !.returned = TRUE,
                                  !.err = Validate(checked.v, checked.value)]
    /\ UNCHANGED <<doc, parsed, order, engineVars>>

InitConfig ==
    /\ EngineIdle
    /\ AuxIdle
    /\ rs = Unresolved("dir")
    /\ doc \in Documents
    /\ parsed = NoParse
    /\ order = NoOrder
    /\ checked = NoCheck

NextConfig ==
    \/ CallParse
    \/ CallGetVariableOrder

SpecConfig == InitConfig /\ [][NextConfig]_vars

InitValidate ==
    /\ EngineIdle
    /\ AuxIdle
    /\ rs = Unresolved("dir")
    /\ doc = NoDoc
    /\ parsed = NoParse
    /\ order = NoOrder
    /\ \E v \in Variables, value \in GoValues :
          checked = [v |-> v, value |-> value, returned |-> FALSE, err |-> ""]

NextValidate == CallValidate

SpecValidate == InitValidate /\ [][NextValidate]_vars

\* ------------------------------------------- configuration: the claims

\* The keys of the declarations of the variables mapping, in document order.
DeclarationOrder(d) ==
    LET IsDeclaration(e) == ~e.merge IN Keys(SelectSeq(d.entries, IsDeclaration))

\* C13: for a configuration ParseCutrYAML accepted, GetVariableOrder returns
\* each key of the variables map exactly once: in declaration order when the
\* order of the document was recovered, in lexicographic order otherwise.
C13_OrderIsPermutation ==
    order.set =>
        /\ Len(order.names) = Cardinality(DOMAIN parsed.config.Variables)
        /\ {order.names[i] : i \in 1..Len(order.names)} = DOMAIN parsed.config.Variables
        /\ IF extractVariableOrder(doc) # <<>>
           THEN order.names = DeclarationOrder(doc)
           ELSE \A i, j \in 1..Len(order.names) :
                   i < j => LessBytes(order.names[i], order.names[j])

\* The variables a document gives: those it declares, and those of a merged
\* mapping that no declaration overrides.
Given(d) ==
    {d.entries[i].decl.v : i \in Declared(d.entries)}
    \cup {d.entries[m[1]].base[m[2]].decl.v :
            m \in {mm \in Merged(d.entries) :
                     \A i \in Declared(d.entries) :
                        d.entries[i].key # d.entries[mm[1]].base[mm[2]].key}}

\* The reasons of rejection the claim lists.
Listed(d) ==
    \/ d.name = <<>>
    \/ \E v \in Given(d) :
          \/ v.Type \notin {"string", "choice", "number", "boolean"}
          \/ v.Type = "choice" /\ v.Choices = <<>>
          \/ v.Type = "number" /\ v.Min # 0 /\ v.Max # 0 /\ v.Min > v.Max
          \/ v.Type = "string" /\ v.Pattern = pOpen

\* C14, as the claim states it: ParseCutrYAML returns an error exactly for
\* the listed reasons.
C14_AsStated ==
    parsed # NoParse => ((parsed.err # "") <=> Listed(doc))

\* C14: for a document that yaml.Unmarshal decodes into the Config (no
\* field value of a wrong type, no mapping key defined twice),
\* ParseCutrYAML returns an error exactly when the name is absent or empty
\* or a variable has a type outside the four, is a choice without choices,
\* a number with both bounds set and min above max, or a string whose
\* pattern does not compile; a document that does not decode is rejected;
\* on success every declared variable is in the variables map as declared.
C14_ParseRejects ==
    parsed # NoParse =>
        /\ (parsed.err # "") <=> (yamlFails(doc) \/ Listed(doc))
        /\ parsed.err = ""
              => \A i \in Declared(doc.entries) :
                    /\ doc.entries[i].key \in DOMAIN parsed.config.Variables
                    /\ parsed.config.Variables[doc.entries[i].key] = doc.entries[i].decl.v

\* A document whose one defect is a number with min above max was rejected,
\* with a valid variable declared before it.
C14_Witness ==
    /\ parsed # NoParse
    /\ parsed.err = "variable"
    /\ Len(doc.entries) = MaxVars
    /\ doc.entries[1].decl.v = vChoice
    /\ doc.entries[MaxVars].decl.v = vInverted

\* A call of Validate returned, with this receiver and this value.
Validated(v, value) ==
    /\ checked # NoCheck
    /\ checked.returned
    /\ checked.v = v
    /\ checked.value = value

C16_ChoiceAndBoolean ==
    \A v \in Variables, value \in GoValues :
       Validated(v, value) =>
          /\ v.Type = "choice"
                => ((checked.err = "")
                      <=> /\ value.kind = "string"
                          /\ \E i \in 1..Len(v.Choices) : v.Choices[i] = value.s)
          /\ v.Type = "boolean" => ((checked.err = "") <=> value.kind = "bool")

\* The choice variable rejected a string that is none of its choices.
C16_Witness ==
    /\ Validated(vChoice, GoString("a"))
    /\ checked.err = "is not a valid choice"

\* ------------------------------------------------- hooks: missing keys

\* The command executeCommand is about to render.
Current == Commands(hk.phase)[hk.idx]

\* C17, as the claim states it: no subprocess is started for a command whose
\* template refers to a key absent from values.
C17_AsStated ==
    \A i \in 1..Len(hlog) :
       ~RefersToMissing(Commands(hlog[i].phase)[hlog[i].k], data)

\* C17: executeCommand on a command whose template comes to evaluate a key
\* absent from values (the one step that takes the executor on from where
\* a command is next) makes the phase return an error wrapped as "render
\* hook command", and starts no subprocess.
C17_MissingKeyFailsPhase ==
    [][(hk.state = "next" /\ hk'.state # "next" /\ EvaluatesMissing(Current, data))
          => /\ hk'.state = "failed"
             /\ herr' = PhaseError(hk.phase, <<Msg("render hook command"),
                                                Msg("execute command template")>>)
             /\ hlog' = hlog]_vars

\* A phase failed on its second command or a later one, which evaluates an
\* absent key, after the commands before it ran.
C17_Witness ==
    /\ hk.state = "failed"
    /\ hk.idx > 1
    /\ EvaluatesMissing(Current, data)
    /\ Len(hlog) = hk.idx - 1
    /\ herr = PhaseError(hk.phase, <<Msg("render hook command"),
                                      Msg("execute command template")>>)

\* ---------------------------------------------------- hooks: the deadline

\* One phase of at most two commands that render, under a deadline.
InitDeadline ==
    /\ InitHooks
    /\ hooks.PostGeneration = <<>>
    /\ Len(hooks.PreGeneration) <= 2
    /\ \A i \in 1..Len(hooks.PreGeneration) : hooks.PreGeneration[i] \in {hPlain, hVar}

\* The loop of the phase goes on when it can, the timer of the context
\* fires, and a shell killed by it dies.  Nothing makes a process end by
\* itself, and nothing makes the descendants of a shell close its pipe.
SpecDeadline ==
    /\ InitDeadline
    /\ [][NextHooks]_vars
    /\ WF_vars(executeCommand)
    /\ WF_vars(deadlineExpires)
    /\ WF_vars(deadlineKills)

\* C18, its liveness part: when the deadline passes while a command runs,
\* the phase call eventually returns an error.
C18_DeadlineEndsPhase ==
    (hk.state = "running" /\ hk.expired) ~> (hk.state = "failed")

\* ------------------------------------------- Generate: the template source

\* C19: when Generate has returned, well or with an error, the temporary
\* directory made for a clone is there no more.
C19_TempDirRemoved ==
    gpc \in {"failed", "done"} => rs.tmp # "exists"

\* C20: for a local source, what is at the local path stays what it was
\* and no temporary directory is made; Resolve returns the same path with
\* no cleanup function when a directory is there, and an error with no
\* cleanup function, at which Generate returns, when a file or nothing is.
C20_LocalSourceKept ==
    rs.source # "git" =>
        /\ rs.local = rs.source
        /\ rs.tmp = "none"
        /\ ~rs.deferred
        /\ gpc # "start" =>
              IF rs.source = "dir"
                THEN rs.path = "local" /\ rs.cleanup = "none" /\ rs.err = ""
                ELSE rs.path = "" /\ rs.cleanup = "none" /\ rs.err # "" /\ gpc = "failed"

\* A whole run on a local directory ended well, hooks and render included.
C20_Witness ==
    /\ rs.source = "dir"
    /\ gpc = "done"
    /\ hlog # <<>>
    /\ dst[1] # <<>>

\* --------------------------------------- Generate: where the hooks run

\* C21: in a run of Generate every pre-generation command is started in the
\* template directory Resolve returned, every post-generation command in
\* the output directory, and a post-generation command is started only
\* after the walk of the whole tree has ended well.
C21_HookDirectories ==
    \A i \in 1..Len(hlog) :
       IF hlog[i].phase = "pre-generation"
         THEN hlog[i].dir = rs.path /\ rs.path \in {"tmp", "local"}
         ELSE /\ hlog[i].dir = OutputDir
              /\ pc[1] = "done"
              /\ stack[1] = <<>>

\* A run with commands of both phases started and files rendered between
\* them.
C21_Witness ==
    /\ PhaseLog("pre-generation") # <<>>
    /\ PhaseLog("post-generation") # <<>>
    /\ \E p \in DOMAIN dst[1] : ~dst[1][p].isDir

\* ------------------------------------------------- isBinary: the inputs

\* Contents are runs of pieces: a null byte, a letter, a byte that is never
\* valid UTF-8, a control character, a tab, DEL, a two-byte character and
\* its first byte alone.
MaxRuns == 3
Pieces == {<<0>>, <<97>>, <<255>>, <<1>>, <<9>>, <<127>>, <<195, 169>>, <<195>>}
RunLengths == {1, 2, 3, 7}

RECURSIVE Blob(_)
Blob(runs) ==
    IF runs = <<>> THEN <<>>
    ELSE Repeat(runs[1][1], runs[1][2]) \o Blob(Tail(runs))

ShortBlobs ==
    {Blob(runs) : runs \in UNION {[1..n -> Pieces \X RunLengths] : n \in 0..MaxRuns}}

\* Contents longer than the sample: a null byte, a split character and the
\* 30% threshold on both sides of the end of the sample.
LongBlobs ==
    {Blob(runs) : runs \in
        {<<<<(<<97>>), maxSampleSize>>, <<(<<0>>), 1>>>>,
         <<<<(<<97>>), maxSampleSize - 1>>, <<(<<0>>), 1>>>>,
         <<<<(<<97>>), maxSampleSize - 1>>, <<(<<195, 169>>), 1>>>>,
         <<<<(<<195, 169>>), maxSampleSize>>>>,
         <<<<(<<255>>), 307>>, <<(<<97>>), 717>>, <<(<<255>>), 1000>>>>,
         <<<<(<<255>>), 308>>, <<(<<97>>), 716>>, <<(<<97>>), 1000>>>>,
         <<<<(<<97>>), maxSampleSize>>, <<(<<255>>), 1000>>>>}}

\* A call of isBinary on a content.
CallIsBinary ==
    /\ call.fn = "isBinary"
    /\ ~call.returned
    /\ call' = [call EXCEPT !.returned = TRUE, !.result = isBinary(call.data)]
    /\ UNCHANGED <<cfgVars, prog, src, data, settings, withSettings, pc, stack,
                   dst, result, trace, hooks, hookVars, genVars, rs>>

InitBinary ==
    /\ EngineIdle
    /\ ConfigIdle
    /\ rs = Unresolved("dir")
    /\ prog = NoProgress
    /\ \E d \in ShortBlobs \cup LongBlobs :
          call = [fn |-> "isBinary", data |-> d, returned |-> FALSE, result |-> FALSE]

NextBinary == CallIsBinary

SpecBinary == InitBinary /\ [][NextBinary]_vars

\* ------------------------------------------------- isBinary: the claim

\* The positions of the content that isBinary looks at.
Sampled(d) == 1..(IF Len(d) < 1024 THEN Len(d) ELSE 1024)

\* The sampled positions that hold neither a printable ASCII byte nor a
\* tab, a line feed or a carriage return.
Odd(d) == {i \in Sampled(d) : d[i] \notin (32..126) \cup {9, 10, 13}}

Decision(d, n) ==
    IF \E i \in Sampled(d) : d[i] = 0 THEN TRUE
    ELSE IF utf8Valid(SubSeq(d, 1, n)) THEN FALSE
    ELSE 10 * Cardinality(Odd(d)) > 3 * n

\* C22: isBinary decides on the first min(len, 1024) bytes only: binary when
\* they hold a null byte, otherwise text when they are valid UTF-8 (so the
\* empty content is text), otherwise binary exactly when strictly more than
\* 30% of them are neither printable ASCII nor tab, LF or CR.
C22_IsBinaryDecides ==
    (call.fn = "isBinary" /\ call.returned) =>
        /\ call.result = Decision(call.data, Cardinality(Sampled(call.data)))
        /\ call.data = <<>> => ~call.result

\* A content that is not valid UTF-8, has no null byte and has exactly 30%
\* of non-printable bytes was found text.
C22_Witness ==
    /\ call.fn = "isBinary" /\ call.returned
    /\ call.data # <<>>
    /\ \A i \in Sampled(call.data) : call.data[i] # 0
    /\ ~utf8Valid(SubSeq(call.data, 1, Cardinality(Sampled(call.data))))
    /\ 10 * Cardinality(Odd(call.data)) = 3 * Cardinality(Sampled(call.data))
    /\ ~call.result

\* --------------------------------------- renders: the destination path

\* What a segment of a source path renders to, trimmed.
SegText(seg) ==
    LET KeptText(trim) ==
          IF trim = <<>> THEN <<>> ELSE TrimSpace(renderString(trim, data).out)
    IN KeptText(TrimSpaceItems(seg))

NonEmptyText(t) == t # <<>>

\* The segments of a source path that render to a non-empty text, in order.
KeptSegments(rel) == SelectSeq([j \in 1..Len(rel) |-> SegText(rel[j])], NonEmptyText)

\* C23: what the walk puts in the destination for a source entry is at the
\* path made, in order, of exactly the segments of its source path that
\* render to a non-empty text; a directory whose own name renders empty
\* below an ancestor that does not is not skipped: the walk goes on to its
\* entries, whose files land directly under the ancestors' rendered path.
\* An entry is passed over as empty only when none of its segments is kept.
C23_PathOfKeptSegments ==
    \A r \in Runs : \A i \in 1..Len(trace[r]) :
       LET ev == trace[r][i] IN
       /\ ev.ev = "empty" => KeptSegments(ev.rel) = <<>>
       /\ Produced(ev) =>
          /\ ev.target = KeptSegments(ev.rel)
          /\ ev.target # <<>>
          /\ (src[ev.rel].isDir /\ SegText(ev.rel[Len(ev.rel)]) = <<>>) =>
                \/ pc[r] = "failed"
                \/ \A q \in DOMAIN src :
                      (Len(q) = Len(ev.rel) + 1 /\ IsPrefix(ev.rel, q))
                         => q \in Visited(r) \cup Pending(r)

\* The file a/{{.x}}/b was written as a/b: the directory named {{.x}}
\* rendered empty, and the walk went into it.
C23_Witness ==
    /\ pc[1] = "done"
    /\ \E i \in 1..Len(trace[1]) :
          LET ev == trace[1][i] IN
          /\ ev.rel = <<nA, nX, nB>>
          /\ ev.ev \in {"copy", "render"}
          /\ ev.target = <<Text(<<"a">>), Text(<<"b">>)>>
          /\ ev.target \in DOMAIN dst[1]
          /\ ~dst[1][ev.target].isDir

\* ------------------------------------------- renders: excluded entries

\* The entry at rel is self-excluded, or matches an ignore pattern of a
\* render with settings.
Excluded(rel) ==
    \/ shouldSkip(BaseBytes(rel), src[rel].isDir)
    \/ withSettings /\ shouldIgnoreWithSettings(rel, src[rel].isDir, settings)

\* The entry lies under an excluded directory.
UnderExcluded(rel) ==
    \E n \in 1..(Len(rel) - 1) : Excluded(SubSeq(rel, 1, n))

\* C24: exclusion comes before templating.  The callback on an excluded
\* entry returns without an error and without touching the destination, the
\* walk never calls it on an entry under an excluded directory, and so a
\* render fails only on an entry that is not excluded.
C24_ExcludedNeverTemplated ==
    \A r \in Runs :
       /\ \A i \in 1..Len(trace[r]) :
             LET ev == trace[r][i] IN
             /\ ~UnderExcluded(ev.rel)
             /\ Excluded(ev.rel) =>
                   /\ ~Templated(ev)
                   /\ ev.err = "none"
                   /\ ~ev.changed
       /\ pc[r] = "failed" => ~Excluded(Last(r).rel)

\* A render that ended well over an ignored file whose content does not
\* parse and an ignored entry whose name evaluates an absent key.
C24_Witness ==
    /\ pc[1] = "done"
    /\ \E i, j \in 1..Len(trace[1]) :
          /\ trace[1][i].ev = "ignore"
          /\ ~ParseOK(src[trace[1][i].rel].content)
          /\ trace[1][j].ev = "ignore"
          /\ EvaluatesMissing(trace[1][j].rel[Len(trace[1][j].rel)], data)

\* ------------------------------------- renders: values that are paths

\* Values whose text is a path: the parent directory, a path through it, a
\* path of two segments and a rooted path.
PathValues ==
    {StrVal(<<".", ".">>), StrVal(<<".", ".", "/", "a">>),
     StrVal(<<"a", "/", "b">>), StrVal(<<"/", "a">>)}

PathValueMaps ==
    {MapOf([x |-> vx, f |-> vf]) : vx \in PathValues, vf \in {NoValue, BoolVal(TRUE)}}

InitRenderPaths ==
    /\ ConfigIdle
    /\ AuxIdle
    /\ rs = Unresolved("dir")
    /\ src \in SrcTrees
    /\ data \in PathValueMaps
    /\ withSettings \in BOOLEAN
    /\ settings \in (IF withSettings THEN SettingsSet ELSE {ZeroSettings})
    /\ pc = [r \in Runs |-> "idle"]
    /\ stack = [r \in Runs |-> <<>>]
    /\ dst = [r \in Runs |-> <<>>]
    /\ result = [r \in Runs |-> "none"]
    /\ trace = [r \in Runs |-> <<>>]
    /\ hooks = NoHooks
    /\ hk = IdleExecutor(FALSE)
    /\ hlog = <<>>
    /\ herr = <<>>
    /\ gpc = "none"
    /\ stages = <<>>

SpecRenderPaths == InitRenderPaths /\ [][NextRender]_vars

\* The path, relative to the destination root, leaves the root.
Outside(p) == p # <<>> /\ p[1] = DotDot

\* C25: every file and directory a render creates or overwrites lies inside
\* the destination root, whatever the values: nothing is made at a path
\* that leaves the root.
C25_InsideDestination ==
    \A r \in Runs : \A p \in DOMAIN dst[r] : ~Outside(p)

\* ------------------------------- one text as file content and as command

MaxItems == 3

TextItems ==
    {Lit(<<"a", " ">>), Var("x"), If("f"), End, Unclosed("x"),
     Call(<<"u", "p", "p", "e", "r">>, "x"), Call(<<"l", "o", "w", "e", "r">>, "x"),
     Call(<<"t", "r", "i", "m">>, "x")}

Texts == UNION {[1..n -> TextItems] : n \in 0..MaxItems}

\* x absent, empty, "a" or " A "; f absent, false or true.
TextValueMaps ==
    {MapOf([x |-> vx, f |-> vf]) :
        vx \in {NoValue, StrVal(<<>>), StrVal(<<"a">>), StrVal(<<" ", "A", " ">>)},
        vf \in {NoValue, BoolVal(FALSE), BoolVal(TRUE)}}

NotRendered == [err |-> "pending", out |-> <<>>]

\* The text is rendered as the content of a file.
CallRenderBytes ==
    /\ call.fn = "render"
    /\ call.file = NotRendered
    /\ call' = [call EXCEPT !.file = renderBytes(call.text, call.values),
                            !.returned = call.hook # NotRendered]
    /\ UNCHANGED <<cfgVars, prog, src, data, settings, withSettings, pc, stack,
                   dst, result, trace, hooks, hookVars, genVars, rs>>

\* The text is rendered as a hook command.
CallRenderCommand ==
    /\ call.fn = "render"
    /\ call.hook = NotRendered
    /\ call' = [call EXCEPT !.hook = renderCommand(call.text, call.values),
                            !.returned = call.file # NotRendered]
    /\ UNCHANGED <<cfgVars, prog, src, data, settings, withSettings, pc, stack,
                   dst, result, trace, hooks, hookVars, genVars, rs>>

InitSameText ==
    /\ EngineIdle
    /\ ConfigIdle
    /\ rs = Unresolved("dir")
    /\ prog = NoProgress
    /\ \E text \in Texts, values \in TextValueMaps :
          call = [fn |-> "render", text |-> text, values |-> values,
                  returned |-> FALSE, file |-> NotRendered, hook |-> NotRendered]

NextSameText ==
    \/ CallRenderBytes
    \/ CallRenderCommand

SpecSameText == InitSameText /\ [][NextSameText]_vars

\* C26: a text that renders as the content of a file renders, as a hook
\* command against the same values, to the same string.
C26_SameText ==
    (call.fn = "render" /\ call.returned /\ call.file.err = "none") =>
        /\ call.hook.err = "none"
        /\ call.hook.out = call.file.out

\* ------------------------------------------------ collecting the values

\* A Variable with its default.
WithDefault(v, d) == v @@ [Default |-> d]

\* fmt.Sprint(variable.Default) on the defaults of the model.
Sprint(d) ==
    CASE d.kind = "string" -> d.s
      [] d.kind = "nil"    -> "<nil>"
      [] d.kind = "bool"   -> IF d.b THEN "true" ELSE "false"
      [] OTHER             -> IF d.twice = 2 * 8080 THEN "8080" ELSE "500"

\* strconv.ParseFloat on the texts of the model that are numbers.
ParseFloat == ("8080" :> 8080) @@ ("500" :> 500) @@ ("70000" :> 70000)

\* What a user can type.
Typed == {"", "a", "b", "8080", "500", "70000"}

\* The Validate callback promptNumber gives tap.Text.
NumberAccepts(input) == input = "" \/ input \in DOMAIN ParseFloat

\* promptNumber on the text tap.Text returned.
promptNumber(variable, input) ==
    IF input = "" THEN variable.Default
    ELSE IF input \in DOMAIN ParseFloat THEN GoFloat(2 * ParseFloat[input])
    ELSE variable.Default

\* The Validate callback promptText gives tap.Text: none without a pattern.
TextAccepts(variable, input) ==
    \/ variable.Pattern = ""
    \/ input = ""
    \/ Compiles(variable.Pattern) /\ MatchString(variable.Pattern, input)

\* promptText on the text tap.Text returned.
promptText(variable, defStr, input) ==
    IF input = "" THEN GoString(defStr) ELSE GoString(input)

\* What one turn of the loop of CollectValues can put in values for the
\* variable: the selected choice, the confirmed boolean, or what promptNumber
\* and promptText make of a text their callback accepted.
Prompted(variable) ==
    IF Len(variable.Choices) > 0
      THEN {GoString(variable.Choices[i]) : i \in 1..Len(variable.Choices)}
    ELSE IF variable.Type = "boolean" THEN {GoBool(b) : b \in BOOLEAN}
    ELSE IF variable.Type = "number"
      THEN {promptNumber(variable, input) : input \in {t \in Typed : NumberAccepts(t)}}
    ELSE {promptText(variable, Sprint(variable.Default), input) :
             input \in {t \in Typed : TextAccepts(variable, t)}}

\* The defaults a declaration of the model gives a variable.
DefaultsOf(v) ==
    CASE v.Type = "number"  -> {GoNil, GoInt(8080), GoInt(500)}
      [] v.Type = "boolean" -> {GoNil, GoBool(TRUE)}
      [] v.Type = "choice"  -> {GoNil, GoString("m")}
      [] OTHER              -> {GoNil, GoString("a"), GoString("b")}

\* The variables of a configuration ParseCutrYAML accepts.
DeclaredVariables ==
    UNION {{WithDefault(v, d) : d \in DefaultsOf(v)} :
              v \in {w \in {vString, vWord, vChoice, vFree, vPort, vBool} :
                        validateVariable(w) = ""}}

Orders(names) ==
    {o \in [1..Cardinality(names) -> names] : \A i, j \in DOMAIN o : o[i] = o[j] => i = j}

\* One turn of the loop of CollectValues: the prompt of the next variable
\* of order is answered and the answer put in values; after the last one
\* CollectValues returns the values.
CollectNext ==
    /\ call.fn = "CollectValues"
    /\ ~call.returned
    /\ \E answer \in Prompted(call.variables[call.order[call.i]]) :
          call' = [call EXCEPT
                      !.values = (call.order[call.i] :> answer) @@ @,
                      !.i = @ + 1,
                      !.returned = (call.i = Len(call.order))]
    /\ UNCHANGED <<cfgVars, prog, src, data, settings, withSettings, pc, stack,
                   dst, result, trace, hooks, hookVars, genVars, rs>>

InitCollect ==
    /\ EngineIdle
    /\ ConfigIdle
    /\ rs = Unresolved("dir")
    /\ prog = NoProgress
    /\ \E names \in (SUBSET VarNames) \ {{}} :
       \E variables \in [names -> DeclaredVariables], sequence \in Orders(names) :
          call = [fn |-> "CollectValues", variables |-> variables, order |-> sequence,
                  i |-> 1, values |-> <<>>, returned |-> FALSE]

NextCollect == CollectNext

SpecCollect == InitCollect /\ [][NextCollect]_vars

\* C27: every value of the mapping CollectValues returns, the one Generate
\* hands to the hooks and the renderer, passes Validate of its variable.
C27_ValuesValid ==
    (call.fn = "CollectValues" /\ call.returned) =>
        \A name \in DOMAIN call.values :
           Validate(call.variables[name], call.values[name]) = ""

\* ------------------------------------------------------- ShowProgress

\* What the wrapped operation returns: nil or an error.
OperationErrors == {"nil", "failed", "timeout"}

\* The bar stops advancing on ticks once progress has reached this.
TickCeiling == 90

progressFrame ==
    <<cfgVars, call, src, data, settings, withSettings, pc, stack, dst, result,
      trace, hooks, hookVars, genVars, rs>>

\* ShowProgress is called: the bar starts, the channel done (of capacity 1)
\* is made, the goroutine of the operation is started, the ticker is made,
\* and the caller comes to the select.
ShowProgress ==
    /\ prog.caller = "called"
    /\ prog' = [prog EXCEPT !.caller = "select", !.task = "started", !.ticking = TRUE]
    /\ UNCHANGED progressFrame

\* The goroutine calls the operation.
operationRuns ==
    /\ prog.task = "started"
    /\ prog' = [prog EXCEPT !.task = "running", !.runs = @ + 1]
    /\ UNCHANGED progressFrame

\* The operation returns and the goroutine sends its error on done; the
\* channel has room for it, so the goroutine ends whether or not the caller
\* is receiving.
operationReturns ==
    /\ prog.task = "running"
    /\ prog' = [prog EXCEPT !.task = "ended", !.done = <<prog.operation>>]
    /\ UNCHANGED progressFrame

\* The ticker fires: a tick is put on ticker.C, or dropped when the one
\* before it has not been received.
tickerFires ==
    /\ prog.ticking
    /\ ~prog.tick
    /\ prog' = [prog EXCEPT !.tick = TRUE]
    /\ UNCHANGED progressFrame

\* The select that returns as soon as the bar is full.
selectTick_GivesUp ==
    /\ prog.caller = "select"
    /\ prog.tick
    /\ IF prog.progress < TickCeiling
         THEN prog' = [prog EXCEPT !.tick = FALSE,
                                   !.progress = @ + 5 + (@ \div 10),
                                   !.bar = @ + 5 + (prog.progress \div 10)]
         ELSE prog' = [prog EXCEPT !.tick = FALSE, !.caller = "returned",
                                   !.ret = "nil", !.ticking = FALSE]
    /\ UNCHANGED progressFrame

\* The select takes the case of ticker.C: the bar advances, more slowly as
\* it gets closer to the end, and not at all from TickCeiling on.
selectTick ==
    /\ prog.caller = "select"
    /\ prog.tick
    /\ IF prog.progress < TickCeiling
         THEN prog' = [prog EXCEPT !.tick = FALSE,
                                   !.progress = @ + 5 + (@ \div 10),
                                   !.bar = @ + 5 + (prog.progress \div 10)]
         ELSE prog' = [prog EXCEPT !.tick = FALSE]
    /\ UNCHANGED progressFrame

\* The select takes the case of done: the bar is advanced to its end and
\* stopped, ShowProgress returns the error received and the deferred
\* ticker.Stop runs.
selectDone ==
    /\ prog.caller = "select"
    /\ prog.done # <<>>
    /\ prog' = [prog EXCEPT !.done = <<>>,
                            !.bar = @ + (100 - prog.progress),
                            !.caller = "returned",
                            !.ret = prog.done[1],
                            !.ticking = FALSE]
    /\ UNCHANGED progressFrame

InitProgress ==
    /\ EngineIdle
    /\ ConfigIdle
    /\ rs = Unresolved("dir")
    /\ call = NoCall
    /\ \E operation \in OperationErrors :
          prog = [caller |-> "called", operation |-> operation, task |-> "none",
                  runs |-> 0, done |-> <<>>, ticking |-> FALSE, tick |-> FALSE,
                  progress |-> 0, bar |-> 0, ret |-> "none"]

NextProgress ==
    \/ ShowProgress
    \/ operationRuns
    \/ operationReturns
    \/ tickerFires
    \/ selectTick
    \/ selectDone

SpecProgress == InitProgress /\ [][NextProgress]_vars

\* C29: the operation is run at most once, on its own task; ShowProgress
\* has returned only with the operation run once and ended, and with the
\* operation's error as its result, whatever ticks came in between.
C29_ReturnsOperationError ==
    /\ prog.runs <= 1
    /\ prog.caller = "returned" =>
          /\ prog.task = "ended"
          /\ prog.runs = 1
          /\ prog.ret = prog.operation

\* ShowProgress returned the operation's error after the bar had advanced
\* on ticks as far as it goes, with one more tick waiting.
C29_Witness ==
    /\ prog.caller = "returned"
    /\ prog.ret = "failed"
    /\ prog.progress >= TickCeiling
    /\ prog.tick
    /\ prog.bar = 100

\* ------------------------------ configuration: the sequence handed out

MaxCalls == 2
MaxWrites == 1

\* A caller that holds no sequence yet.  held lists what each call of
\* GetVariableOrder handed out: ConfigSlice for the slice of the Config
\* itself (Go slices share their backing array), or the place in own of a
\* slice made for the caller; returns keeps what each call returned.
ConfigSlice == 0
NoneHeld == [fn |-> "GetVariableOrder", held |-> <<>>, own |-> <<>>,
             returns |-> <<>>, writes |-> 0]

orderFrame ==
    <<doc, order, checked, prog, src, data, settings, withSettings, pc, stack,
      dst, result, trace, hooks, hookVars, genVars, rs>>

\* The caller calls GetVariableOrder on the parsed Config: with a recorded
\* order it gets c.variableOrder itself, otherwise a slice made and sorted
\* for this call.
callerGetsOrder ==
    /\ parsed.err = ""
    /\ call.fn = "GetVariableOrder"
    /\ Len(call.returns) < MaxCalls
    /\ IF Len(parsed.config.variableOrder) > 0
         THEN call' = [call EXCEPT !.held = Append(@, ConfigSlice),
                                   !.returns = Append(@, GetVariableOrder(parsed.config))]
         ELSE call' = [call EXCEPT !.own = Append(@, GetVariableOrder(parsed.config)),
                                   !.held = Append(@, Len(call.own) + 1),
                                   !.returns = Append(@, GetVariableOrder(parsed.config))]
    /\ UNCHANGED parsed
    /\ UNCHANGED orderFrame

\* The caller assigns an element of a sequence it was handed: the write
\* goes to the backing array, the Config's own when the slice is its.
callerWrites ==
    /\ call.fn = "GetVariableOrder"
    /\ call.writes < MaxWrites
    /\ \E h \in 1..Len(call.held), name \in VarNames :
          IF call.held[h] = ConfigSlice
            THEN \E i \in 1..Len(parsed.config.variableOrder) :
                    /\ parsed.config.variableOrder[i] # name
                    /\ parsed' = [parsed EXCEPT !.config.variableOrder[i] = name]
                    /\ call' = [call EXCEPT !.writes = @ + 1]
            ELSE \E i \in 1..Len(call.own[call.held[h]]) :
                    /\ call.own[call.held[h]][i] # name
                    /\ call' = [call EXCEPT !.own[call.held[h]][i] = name,
                                            !.writes = @ + 1]
                    /\ UNCHANGED parsed
    /\ UNCHANGED orderFrame

InitOrder ==
    /\ EngineIdle
    /\ rs = Unresolved("dir")
    /\ prog = NoProgress
    /\ doc \in Documents
    /\ parsed = NoParse
    /\ order = NoOrder
    /\ checked = NoCheck
    /\ call = NoneHeld

NextOrder ==
    \/ CallParse
    \/ callerGetsOrder
    \/ callerWrites

SpecOrder == InitOrder /\ [][NextOrder]_vars

\* C28: a parsed configuration is immutable: every call of GetVariableOrder
\* returns what the first one returned, whatever the caller did in between
\* to the sequences it was handed.
C28_OrderStable ==
    \A i, j \in 1..Len(call.returns) : call.returns[i] = call.returns[j]

\* ------------------------------------------------ hooks: lazy rendering

\* The phase failed on the rendering of a command.
RenderFailed ==
    /\ hk.state = "failed"
    /\ \E cause \in {"parse command template", "execute command template"} :
          herr = PhaseError(hk.phase, <<Msg("render hook command"), Msg(cause)>>)

\* The entries of the log of started processes that are of the phase.
StartedIn(phase) == {i \in 1..Len(hlog) : hlog[i].phase = phase}

\* C30: a command is rendered when its turn comes.  A phase that failed on
\* the rendering of its command k failed on a command that does not render,
\* with the k-1 commands before it started and ended well, each on its own
\* rendered text, and still in the log of what ran.
C30_RenderedInTurn ==
    RenderFailed =>
       /\ renderCommand(Current, data).err # "none"
       /\ Cardinality(StartedIn(hk.phase)) = hk.idx - 1
       /\ \A i \in StartedIn(hk.phase) :
             /\ hlog[i].status = "exit status 0"
             /\ hlog[i].text = renderCommand(Commands(hk.phase)[hlog[i].k], data).out

\* A phase failed on its third command, which does not parse, after the two
\* before it ran.
C30_Witness ==
    /\ RenderFailed
    /\ hk.idx = 3
    /\ ~ParseOK(Current)
    /\ Cardinality(StartedIn(hk.phase)) = 2

====
